---------------------------- MODULE Spec2Model ----------------------------
(***************************************************************************)
(* MicroExchange: the central limit order book (core/include/OrderBook.h) *)
(* with its intrusive price levels (PriceLevel.h) and order records        *)
(* (Order.h).                                                              *)
(*                                                                         *)
(* An Order* is modelled as the index of the record in `orders` (the       *)
(* arena hands out slots and OrderBook never returns one), nullptr as      *)
(* NULL.  The prev/next links, head_/tail_, order_count_ and               *)
(* total_quantity_ are kept as the code keeps them, so a level is what     *)
(* the pointers say and not an abstract list.  Quantity is an unsigned     *)
(* machine integer: arithmetic on it is taken modulo QtyMod = 2^QtyBits,   *)
(* a scaled-down uint64_t.  Timestamps, the symbol tag and tif are copied  *)
(* by the code and never read by it; they are left out.                    *)
(*                                                                         *)
(* Every public operation is one operator from a book record to a book     *)
(* record (add_order, cancel_order, amend_order); the actions apply them   *)
(* to the state.  `trades` is the log a trade callback accumulates, and    *)
(* `fills` is an observer's log of the same length that remembers the two  *)
(* orders and the level around each fill.                                  *)
(***************************************************************************)
EXTENDS Integers, Sequences, FiniteSets, TLC

VARIABLES orders,         \* arena records, in allocation order
          bids,           \* bids_ : price -> PriceLevel
          asks,           \* asks_ : price -> PriceLevel
          order_index,    \* order_index_ : id -> Order*
          next_sequence,  \* next_sequence_
          trade_count,    \* trade_count_
          total_volume,   \* total_volume_
          trades,         \* Trades delivered to trade_callback_, in order
          fills,          \* observer: one entry per trade
          cancelled_at,   \* observer: id -> Len(trades) when cancel_order(id) returned true
          amends_applied, \* observer: amend requests that took one of the two amending branches
          limits,         \* the bounds of this run (never changes)
          ub,             \* the process faulted on undefined behaviour
          books_,         \* MatchingEngine::books_ : symbol -> OrderBook
          stats_,         \* MatchingEngine::stats_
          global_trade_callback_, \* MatchingEngine::global_trade_callback_
          trade_callback_, \* symbol -> who holds that book's trade_callback_
          data,           \* Simulator: the SimulationData being built
          messages_,      \* FeedPublisher::messages_, the trade messages
          calls,          \* observer: what the facade calls returned
          pc,             \* Simulator::run: where it stands
          write_pos_,     \* SPSCRingBuffer::write_pos_
          read_pos_,      \* SPSCRingBuffer::read_pos_
          buffer_,        \* SPSCRingBuffer::buffer_
          producer,       \* the producer thread: its place in push and its locals
          consumer,       \* the consumer thread: its place in pop and its locals
          pushed,         \* observer: the items of the pushes that returned true
          popped,         \* observer: the items the pops returned
          free_head_,     \* ArenaAllocator::free_head_
          capacity_,      \* ArenaAllocator::capacity_
          allocated_,     \* ArenaAllocator::allocated_
          slabs_,         \* ArenaAllocator::slabs_, the slot count of each slab
          node_next,      \* FreeNode::next of every slot
          live,           \* observer: the slots handed out and not yet returned
          arena_call,     \* observer: the last arena call and what it returned
          agent_call      \* ZIAgent: the last generate_order call and its result

book_vars == <<orders, bids, asks, order_index, next_sequence, trade_count,
               total_volume, trades, fills, cancelled_at, amends_applied>>

engine_vars == <<books_, stats_, global_trade_callback_, trade_callback_,
                 data, messages_, calls, pc>>

ring_vars == <<write_pos_, read_pos_, buffer_, producer, consumer, pushed, popped>>

arena_vars == <<free_head_, capacity_, allocated_, slabs_, node_next, live, arena_call>>

aux_vars == <<ring_vars, arena_vars, agent_call>>

not_ring_vars == <<book_vars, limits, ub, engine_vars, arena_vars, agent_call>>
not_arena_vars == <<book_vars, limits, ub, engine_vars, ring_vars, agent_call>>
not_agent_vars == <<book_vars, limits, ub, engine_vars, ring_vars, arena_vars>>

vars == <<book_vars, limits, ub, engine_vars, aux_vars>>

----------------------------------------------------------------------------
\* Bounds of the model

\* A run is explored inside one of three boxes, each bounding the number of
\* orders submitted, the request quantities and the number of amends that
\* change an order: a wide one without amends, one with unit quantities, and
\* a deep one with fewer orders.  `limits` holds the box of the run.
WideOrders == 3
WideQty    == 2
WideAmends == 0
UnitOrders == 3
UnitQty    == 1
UnitAmends == 2
DeepOrders == 2
DeepQty    == 3
DeepAmends == 2
ZeroOrders == 3
ZeroQty    == 1
ZeroAmends == 0
AnyIdOrders == 2
AnyIdQty    == 2
AnyIdAmends == 1
PassiveOrders == 3
PassiveQty    == 3
PassiveAmends == 0
MaxPrice   == 2
MaxSeq     == 5
QtyBits    == 6

Profiles == {[orders |-> WideOrders, qty |-> WideQty, amends |-> WideAmends],
             [orders |-> UnitOrders, qty |-> UnitQty, amends |-> UnitAmends],
             [orders |-> DeepOrders, qty |-> DeepQty, amends |-> DeepAmends]}

----------------------------------------------------------------------------
\* Order.h

PRICE_MARKET == 0
NULL         == 0

QtyMod == 2 ^ QtyBits

QAdd(a, b) == (a + b) % QtyMod
QSub(a, b) == (a - b + QtyMod) % QtyMod
QMin(a, b) == IF a < b THEN a ELSE b

Sides      == {"Buy", "Sell"}
OrderTypes == {"Limit", "Market", "IOC", "FOK"}

is_buy(o)    == o.side = "Buy"
is_filled(o) == o.leaves_qty = 0

\* every order that was not cancelled counts as active
is_active_lenient(o) == o.status # "Cancelled"

is_active(o) == o.status = "New" \/ o.status = "PartiallyFilled"

\* fill that records only the latest fill as the cumulative one
fill_overwrite(o, qty) ==
    LET leaves == QSub(o.leaves_qty, qty)
    IN  [o EXCEPT !.filled_qty = qty,
                  !.leaves_qty = leaves,
                  !.status = IF leaves = 0 THEN "Filled" ELSE "PartiallyFilled"]

fill(o, qty) ==
    LET leaves == QSub(o.leaves_qty, qty)
    IN  [o EXCEPT !.filled_qty = QAdd(@, qty),
                  !.leaves_qty = leaves,
                  !.status = IF leaves = 0 THEN "Filled" ELSE "PartiallyFilled"]

cancel(o) == [o EXCEPT !.status = "Cancelled", !.leaves_qty = 0]

----------------------------------------------------------------------------
\* The book as one value

Book == [orders |-> orders, bids |-> bids, asks |-> asks,
         order_index |-> order_index, next_sequence |-> next_sequence,
         trade_count |-> trade_count, total_volume |-> total_volume,
         trades |-> trades, fills |-> fills, ub |-> ub, ret |-> FALSE,
         trap |-> FALSE, amended |-> FALSE]

\* std::map: erase a key, and the two ends
MapErase(m, k) == [q \in DOMAIN m \ {k} |-> m[q]]
MapPut(m, k, v) == [q \in DOMAIN m \cup {k} |-> IF q = k THEN v ELSE m[q]]
MinKey(m) == CHOOSE k \in DOMAIN m : \A q \in DOMAIN m : k <= q
MaxKey(m) == CHOOSE k \in DOMAIN m : \A q \in DOMAIN m : k >= q

SideLevels(b, side) == IF side = "Buy" THEN b.bids ELSE b.asks
WithLevels(b, side, m) ==
    IF side = "Buy" THEN [b EXCEPT !.bids = m] ELSE [b EXCEPT !.asks = m]
Contra(side) == IF side = "Buy" THEN "Sell" ELSE "Buy"


----------------------------------------------------------------------------
\* PriceLevel.h

NewLevel(p) == [price |-> p, total_quantity |-> 0, order_count |-> 0,
                head |-> NULL, tail |-> NULL]

\* the newest order of the level instead of the oldest
front_newest(level) == level.tail

front(level) == level.head
empty(level) == level.order_count = 0

\* an insertion at the head of the queue
push_back_head(b, side, p, s) ==
    LET level == SideLevels(b, side)[p]
        o1 == [b.orders EXCEPT ![s].prev = NULL, ![s].next = level.head]
        o2 == IF level.head # NULL THEN [o1 EXCEPT ![level.head].prev = s] ELSE o1
        l2 == [level EXCEPT
                 !.head = s,
                 !.tail = IF level.head # NULL THEN @ ELSE s,
                 !.total_quantity = QAdd(@, b.orders[s].leaves_qty),
                 !.order_count = @ + 1]
    IN  [WithLevels(b, side, MapPut(SideLevels(b, side), p, l2)) EXCEPT !.orders = o2]

\* PriceLevel::push_back on the level at key p of `side`
push_back(b, side, p, s) ==
    LET level == SideLevels(b, side)[p]
        o1 == [b.orders EXCEPT ![s].prev = level.tail, ![s].next = NULL]
        o2 == IF level.tail # NULL THEN [o1 EXCEPT ![level.tail].next = s] ELSE o1
        l2 == [level EXCEPT
                 !.head = IF level.tail # NULL THEN @ ELSE s,
                 !.tail = s,
                 !.total_quantity = QAdd(@, b.orders[s].leaves_qty),
                 !.order_count = @ + 1]
    IN  [WithLevels(b, side, MapPut(SideLevels(b, side), p, l2)) EXCEPT !.orders = o2]

\* PriceLevel::remove: unlinks by the order's own prev/next
remove(b, side, p, s) ==
    LET level == SideLevels(b, side)[p]
        o  == b.orders[s]
        o1 == IF o.prev # NULL THEN [b.orders EXCEPT ![o.prev].next = o.next]
                               ELSE b.orders
        nx == o1[s].next
        pv == o1[s].prev
        o2 == IF nx # NULL THEN [o1 EXCEPT ![nx].prev = pv] ELSE o1
        o3 == [o2 EXCEPT ![s].prev = NULL, ![s].next = NULL]
        l2 == [level EXCEPT
                 !.head = IF o.prev # NULL THEN @ ELSE o.next,
                 !.tail = IF nx # NULL THEN @ ELSE pv,
                 !.total_quantity = QSub(@, o.leaves_qty),
                 !.order_count = @ - 1]
    IN  [WithLevels(b, side, MapPut(SideLevels(b, side), p, l2)) EXCEPT !.orders = o3]

\* PriceLevel::pop_front
pop_front(b, side, p) ==
    LET level == SideLevels(b, side)[p]
        s  == level.head
        o  == b.orders[s]
        o1 == IF o.next # NULL THEN [b.orders EXCEPT ![o.next].prev = NULL]
                               ELSE b.orders
        o2 == [o1 EXCEPT ![s].prev = NULL, ![s].next = NULL]
        l2 == [level EXCEPT
                 !.head = o.next,
                 !.tail = IF o.next # NULL THEN @ ELSE NULL,
                 !.total_quantity = QSub(@, o.leaves_qty),
                 !.order_count = @ - 1]
    IN  IF s = NULL THEN b
        ELSE [WithLevels(b, side, MapPut(SideLevels(b, side), p, l2)) EXCEPT !.orders = o2]

\* PriceLevel::reduce_quantity: saturates at zero
reduce_quantity(level, filled) ==
    [level EXCEPT !.total_quantity = IF filled > @ THEN 0 ELSE @ - filled]

\* PriceLevel::begin()..end(): the orders reached from head_ by next
RECURSIVE WalkFrom(_, _, _)
WalkFrom(os, s, fuel) ==
    IF s = NULL \/ fuel = 0 THEN <<>>
    ELSE <<s>> \o WalkFrom(os, os[s].next, fuel - 1)

LevelOrders(os, level) == WalkFrom(os, level.head, Len(os))

----------------------------------------------------------------------------
\* OrderBook.h: matching

\* the price test with the equal price left out
price_ok_strict(side, order_price, level_price) ==
    IF side = "Buy"
    THEN order_price > level_price \/ order_price = PRICE_MARKET
    ELSE order_price < level_price \/ order_price = PRICE_MARKET

\* the two lambdas of OrderBook::match
price_ok(side, order_price, level_price) ==
    IF side = "Buy"
    THEN order_price >= level_price \/ order_price = PRICE_MARKET
    ELSE order_price <= level_price \/ order_price = PRICE_MARKET

\* the contra side walked from its far end
BestContraKey_far(side, contra) ==
    IF side = "Buy" THEN MaxKey(contra) ELSE MinKey(contra)

\* it = begin() for a buy (lowest ask), prev(end()) for a sell (highest bid)
BestContraKey(side, contra) ==
    IF side = "Buy" THEN MinKey(contra) ELSE MaxKey(contra)

\* the trade printed at the aggressor's price
TradePrice_incoming(incoming, resting) == incoming.price

\* trade.price = resting->price
TradePrice(incoming, resting) == resting.price

\* the fill taken from the aggressor alone
FillQty_incoming(incoming, resting) == incoming.leaves_qty

\* one unit per trade
FillQty_unit(incoming, resting) == 1

\* fill_qty = std::min(incoming->leaves_qty, resting->leaves_qty)
FillQty(incoming, resting) == QMin(incoming.leaves_qty, resting.leaves_qty)

\* One pass of the inner while loop of match_against: one trade against
\* level.front().  `inc` is the incoming order, p the key of the contra level.
FillStep(b, inc, p) ==
    LET incoming == b.orders[inc]
        cside    == Contra(incoming.side)
        level    == SideLevels(b, cside)[p]
        r        == front(level)
        resting  == b.orders[r]
        fill_qty == FillQty(incoming, resting)
        trade    == [sequence      |-> b.next_sequence,
                     price         |-> TradePrice(incoming, resting),
                     quantity      |-> fill_qty,
                     aggressor     |-> incoming.side,
                     buy_order_id  |-> IF is_buy(incoming) THEN incoming.id ELSE resting.id,
                     sell_order_id |-> IF is_buy(incoming) THEN resting.id ELSE incoming.id]
        l1       == reduce_quantity(level, fill_qty)
        os1      == [b.orders EXCEPT ![inc] = fill(@, fill_qty)]
        os2      == [os1 EXCEPT ![r] = fill(@, fill_qty)]
        seen     == [agg |-> inc, rest |-> r,
                     agg_pre |-> incoming, rest_pre |-> resting,
                     agg_post |-> os2[inc], rest_post |-> os2[r],
                     level_price |-> level.price,
                     queue |-> LevelOrders(b.orders, level),
                     queue_seqs |-> [i \in 1..Len(LevelOrders(b.orders, level)) |->
                                       b.orders[LevelOrders(b.orders, level)[i]].sequence],
                     contra_prices |-> DOMAIN SideLevels(b, cside),
                     reduce_arg |-> fill_qty, reduce_total |-> level.total_quantity]
        b1       == [WithLevels(b, cside, MapPut(SideLevels(b, cside), p, l1))
                       EXCEPT !.orders = os2,
                              !.next_sequence = @ + 1,
                              !.trades = Append(@, trade),
                              !.fills = Append(@, seen),
                              !.trade_count = @ + 1,
                              !.total_volume = QAdd(@, fill_qty)]
    IN  IF is_filled(os2[r])
        THEN LET b2 == pop_front(b1, cside, p)
             IN  [b2 EXCEPT !.order_index = MapErase(@, resting.id)]
        ELSE b1

\* while (incoming->leaves_qty > 0 && !level.empty()) { ... }
\* front() of a level that counts orders but has no head is a null pointer
RECURSIVE MatchLevel(_, _, _)
MatchLevel(b, inc, p) ==
    LET level == SideLevels(b, Contra(b.orders[inc].side))[p]
    IN  IF b.orders[inc].leaves_qty = 0 \/ empty(level) THEN b
        ELSE IF front(level) = NULL THEN [b EXCEPT !.ub = TRUE]
        ELSE MatchLevel(FillStep(b, inc, p), inc, p)

\* the while loop of match_against: the best contra level is looked up afresh
\* on every pass and dropped once it is empty
RECURSIVE MatchWalk(_, _)
MatchWalk(b, inc) ==
    LET incoming == b.orders[inc]
        cside    == Contra(incoming.side)
        contra   == SideLevels(b, cside)
    IN  IF incoming.leaves_qty = 0 \/ DOMAIN contra = {} THEN b
        ELSE LET p == BestContraKey(incoming.side, contra)
             IN  IF ~price_ok(incoming.side, incoming.price, contra[p].price) THEN b
                 ELSE LET b1 == MatchLevel(b, inc, p)
                          l1 == SideLevels(b1, cside)[p]
                      IN  IF b1.ub THEN b1
                          ELSE IF empty(l1)
                          THEN MatchWalk(
                                 WithLevels(b1, cside, MapErase(SideLevels(b1, cside), p)), inc)
                          ELSE MatchWalk(b1, inc)

\* match_against.  Its first statement computes std::prev(contra_side.end())
\* for a sell; on an empty map that decrement is undefined: b.trap says
\* whether this build faults on it or carries on with the unused iterator.
match_against(b, inc) ==
    IF ~is_buy(b.orders[inc]) /\ DOMAIN b.bids = {} /\ b.trap
    THEN [b EXCEPT !.ub = TRUE]
    ELSE MatchWalk(b, inc)

\* ascending keys of a std::map
RECURSIVE KeysAscending(_)
KeysAscending(S) ==
    IF S = {} THEN <<>>
    ELSE LET k == CHOOSE x \in S : \A y \in S : x <= y
         IN  <<k>> \o KeysAscending(S \ {k})

\* the range-for of can_fill_completely over the contra map, from its begin()
RECURSIVE FillScan(_, _, _, _)
FillScan(order, contra, keys, needed) ==
    IF keys = <<>> THEN needed = 0
    ELSE LET price == Head(keys)
         IN  IF is_buy(order) /\ order.price < price /\ order.price # PRICE_MARKET
             THEN needed = 0
             ELSE IF ~is_buy(order) /\ order.price > price /\ order.price # PRICE_MARKET
             THEN needed = 0
             ELSE LET n2 == needed - QMin(needed, contra[price].total_quantity)
                  IN  IF n2 = 0 THEN TRUE
                      ELSE FillScan(order, contra, Tail(keys), n2)

can_fill_completely(b, inc) ==
    LET order  == b.orders[inc]
        contra == SideLevels(b, Contra(order.side))
    IN  FillScan(order, contra, KeysAscending(DOMAIN contra), order.leaves_qty)

\* match without the fill-or-kill pre-check
match_unchecked(b, inc) == match_against(b, inc)

match(b, inc) ==
    IF b.orders[inc].type = "FOK" /\ ~can_fill_completely(b, inc) THEN b
    ELSE match_against(b, inc)

----------------------------------------------------------------------------
\* OrderBook.h: book management and the three requests

rest_order(b, s) ==
    LET o      == b.orders[s]
        side   == o.side
        levels == SideLevels(b, side)
        b1     == IF o.price \in DOMAIN levels THEN b
                  ELSE WithLevels(b, side, MapPut(levels, o.price, NewLevel(o.price)))
    IN  push_back(b1, side, o.price, s)

\* remove_from_book that leaves the emptied level in the map
remove_from_book_keep_level(b, s) ==
    IF b.orders[s].price \in DOMAIN SideLevels(b, b.orders[s].side)
    THEN remove(b, b.orders[s].side, b.orders[s].price, s)
    ELSE b

remove_from_book(b, s) ==
    LET o      == b.orders[s]
        side   == o.side
    IN  IF o.price \in DOMAIN SideLevels(b, side)
        THEN LET b1 == remove(b, side, o.price, s)
             IN  IF empty(SideLevels(b1, side)[o.price])
                 THEN WithLevels(b1, side, MapErase(SideLevels(b1, side), o.price))
                 ELSE b1
        ELSE b

NewOrder(req, seq) ==
    [id |-> req.id, sequence |-> seq, side |-> req.side, type |-> req.type,
     price |-> req.price, quantity |-> req.quantity,
     filled_qty |-> 0, leaves_qty |-> req.quantity, status |-> "New",
     prev |-> NULL, next |-> NULL]

\* a limit order that rests without a look at its leaves_qty
Dispose_rest_filled(b, s) ==
    LET o == b.orders[s]
    IN  IF o.type = "Limit" THEN rest_order(b, s)
        ELSE IF o.leaves_qty > 0
        THEN [b EXCEPT !.orders[s] = cancel(@), !.order_index = MapErase(@, o.id)]
        ELSE b

\* a remainder that rests whatever the order type
Dispose_rest_all(b, s) ==
    IF b.orders[s].leaves_qty > 0 THEN rest_order(b, s) ELSE b

\* the switch after match() in add_order
Dispose(b, s) ==
    LET o == b.orders[s]
    IN  IF o.leaves_qty > 0
        THEN IF o.type = "Limit" THEN rest_order(b, s)
             ELSE [b EXCEPT !.orders[s] = cancel(@),
                            !.order_index = MapErase(@, o.id)]
        ELSE b

\* add_order that stamps the order without advancing next_sequence_
add_order_same_seq(b, req) ==
    LET s  == Len(b.orders) + 1
        b1 == [b EXCEPT !.orders = Append(@, NewOrder(req, b.next_sequence)),
                        !.order_index = MapPut(@, req.id, s)]
        b2 == match(b1, s)
    IN  IF b2.ub THEN b2 ELSE [Dispose(b2, s) EXCEPT !.ret = TRUE]

add_order(b, req) ==
    LET s  == Len(b.orders) + 1
        b1 == [b EXCEPT !.orders = Append(@, NewOrder(req, b.next_sequence)),
                        !.next_sequence = @ + 1,
                        !.order_index = MapPut(@, req.id, s)]
        b2 == match(b1, s)
    IN  IF b2.ub THEN b2 ELSE [Dispose(b2, s) EXCEPT !.ret = TRUE]

\* a cancel that does not ask whether the order is active
cancel_order_unchecked(b, id) ==
    IF id \notin DOMAIN b.order_index THEN [b EXCEPT !.ret = FALSE]
    ELSE LET s  == b.order_index[id]
             b1 == remove_from_book(b, s)
         IN  [b1 EXCEPT !.orders[s] = cancel(@),
                        !.order_index = MapErase(@, id),
                        !.ret = TRUE]

\* a cancel that marks the order but leaves it in its queue
cancel_order_linked(b, id) ==
    IF id \notin DOMAIN b.order_index THEN [b EXCEPT !.ret = FALSE]
    ELSE LET s == b.order_index[id]
         IN  IF ~is_active(b.orders[s]) THEN [b EXCEPT !.ret = FALSE]
             ELSE [b EXCEPT !.orders[s] = cancel(@),
                            !.order_index = MapErase(@, id),
                            !.ret = TRUE]

cancel_order(b, id) ==
    IF id \notin DOMAIN b.order_index THEN [b EXCEPT !.ret = FALSE]
    ELSE LET s == b.order_index[id]
         IN  IF ~is_active(b.orders[s]) THEN [b EXCEPT !.ret = FALSE]
             ELSE LET b1 == remove_from_book(b, s)
                  IN  [b1 EXCEPT !.orders[s] = cancel(@),
                                 !.order_index = MapErase(@, id),
                                 !.ret = TRUE]

\* a priority-losing amend that puts the order back at the front of its level
AmendRequeue_front(b, s, req) ==
    LET b1 == remove_from_book(b, s)
        o  == b1.orders[s]
        o1 == IF req.new_price # 0 THEN [o EXCEPT !.price = req.new_price] ELSE o
        o2 == IF req.new_quantity # 0
              THEN [o1 EXCEPT !.quantity = req.new_quantity,
                              !.leaves_qty = QSub(req.new_quantity, o.filled_qty)]
              ELSE o1
        o3 == [o2 EXCEPT !.sequence = b1.next_sequence, !.status = "Amended"]
        b2 == [b1 EXCEPT !.orders[s] = o3, !.next_sequence = @ + 1]
        b3 == match(b2, s)
        lv == SideLevels(b3, o3.side)
        b4 == IF o3.price \in DOMAIN lv THEN b3
              ELSE WithLevels(b3, o3.side, MapPut(lv, o3.price, NewLevel(o3.price)))
    IN  IF b3.ub THEN b3
        ELSE IF b3.orders[s].leaves_qty > 0 /\ b3.orders[s].type = "Limit"
        THEN push_back_head(b4, o3.side, o3.price, s)
        ELSE b3

\* the priority-losing branch of amend_order
AmendRequeue(b, s, req) ==
    LET b1 == remove_from_book(b, s)
        o  == b1.orders[s]
        o1 == IF req.new_price # 0 THEN [o EXCEPT !.price = req.new_price] ELSE o
        o2 == IF req.new_quantity # 0
              THEN [o1 EXCEPT !.quantity = req.new_quantity,
                              !.leaves_qty = QSub(req.new_quantity, o.filled_qty)]
              ELSE o1
        o3 == [o2 EXCEPT !.sequence = b1.next_sequence, !.status = "Amended"]
        b2 == [b1 EXCEPT !.orders[s] = o3, !.next_sequence = @ + 1]
        b3 == match(b2, s)
    IN  IF b3.ub THEN b3
        ELSE IF b3.orders[s].leaves_qty > 0 /\ b3.orders[s].type = "Limit"
        THEN rest_order(b3, s)
        ELSE b3

\* the quantity-reduction branch of amend_order
AmendReduce(b, s, req) ==
    LET o         == b.orders[s]
        reduction == QSub(o.leaves_qty, req.new_quantity)
        o1        == [o EXCEPT !.leaves_qty = req.new_quantity,
                               !.quantity = QSub(@, reduction),
                               !.status = "Amended"]
        levels    == SideLevels(b, o.side)
        b1        == [b EXCEPT !.orders[s] = o1]
    IN  IF o.price \in DOMAIN levels
        THEN WithLevels(b1, o.side,
                        MapPut(levels, o.price, reduce_quantity(levels[o.price], reduction)))
        ELSE b1

\* amend_order that takes an equal quantity for an increase
amend_order_geq(b, req) ==
    IF req.order_id \notin DOMAIN b.order_index THEN [b EXCEPT !.ret = FALSE]
    ELSE LET s == b.order_index[req.order_id]
             o == b.orders[s]
             price_changed == req.new_price # 0 /\ req.new_price # o.price
             qty_increased == req.new_quantity # 0 /\ req.new_quantity >= o.leaves_qty
         IN  IF ~is_active(o) THEN [b EXCEPT !.ret = FALSE]
             ELSE IF price_changed \/ qty_increased
             THEN [AmendRequeue(b, s, req) EXCEPT !.ret = TRUE, !.amended = TRUE]
             ELSE IF req.new_quantity # 0 /\ req.new_quantity < o.leaves_qty
             THEN [AmendReduce(b, s, req) EXCEPT !.ret = TRUE, !.amended = TRUE]
             ELSE [b EXCEPT !.ret = TRUE]

amend_order(b, req) ==
    IF req.order_id \notin DOMAIN b.order_index THEN [b EXCEPT !.ret = FALSE]
    ELSE LET s == b.order_index[req.order_id]
             o == b.orders[s]
             price_changed == req.new_price # 0 /\ req.new_price # o.price
             qty_increased == req.new_quantity # 0 /\ req.new_quantity > o.leaves_qty
         IN  IF ~is_active(o) THEN [b EXCEPT !.ret = FALSE]
             ELSE IF price_changed \/ qty_increased
             THEN [AmendRequeue(b, s, req) EXCEPT !.ret = TRUE, !.amended = TRUE]
             ELSE IF req.new_quantity # 0 /\ req.new_quantity < o.leaves_qty
             THEN [AmendReduce(b, s, req) EXCEPT !.ret = TRUE, !.amended = TRUE]
             ELSE [b EXCEPT !.ret = TRUE]

\* queries
best_bid(b) == MaxKey(b.bids)
best_ask(b) == MinKey(b.asks)
check_no_crossed_book(b) ==
    IF DOMAIN b.bids = {} \/ DOMAIN b.asks = {} THEN TRUE
    ELSE best_bid(b) < best_ask(b)

\* side_depth: the loop over the map from its begin(), which is the lowest
\* price on either side; `keys` are the keys still to visit, in map order
RECURSIVE DepthLoop(_, _, _, _, _)
DepthLoop(side, keys, max_levels, total, count) ==
    IF keys = <<>> THEN total
    ELSE LET t == QAdd(total, side[Head(keys)].total_quantity)
         IN  IF max_levels > 0 /\ count + 1 >= max_levels THEN t
             ELSE DepthLoop(side, Tail(keys), max_levels, t,
                            IF max_levels > 0 THEN count + 1 ELSE count)

side_depth(side, max_levels) ==
    DepthLoop(side, KeysAscending(DOMAIN side), max_levels, 0, 0)

bid_depth(b, levels) == side_depth(b.bids, levels)
ask_depth(b, levels) == side_depth(b.asks, levels)

\* the keys of a map from rbegin() to rend()
RECURSIVE Reversed(_)
Reversed(q) == IF q = <<>> THEN <<>> ELSE Reversed(Tail(q)) \o <<Head(q)>>

\* get_side_levels: up to max_levels BookLevels from the best price on
RECURSIVE LevelsLoop(_, _, _)
LevelsLoop(side, keys, max_levels) ==
    IF keys = <<>> \/ max_levels = 0 THEN <<>>
    ELSE <<[price |-> Head(keys), quantity |-> side[Head(keys)].total_quantity,
            order_count |-> side[Head(keys)].order_count]>>
         \o LevelsLoop(side, Tail(keys), max_levels - 1)

get_side_levels(side, max_levels, reverse) ==
    LevelsLoop(side, IF reverse THEN Reversed(KeysAscending(DOMAIN side))
                     ELSE KeysAscending(DOMAIN side), max_levels)

get_bids(b, max_levels) == get_side_levels(b.bids, max_levels, TRUE)
get_asks(b, max_levels) == get_side_levels(b.asks, max_levels, FALSE)

----------------------------------------------------------------------------
\* The requests a client can send

\* a market order carries PRICE_MARKET, the other types a limit price in ticks
RequestPrices(type) == IF type = "Market" THEN {PRICE_MARKET} ELSE 1..MaxPrice
Quantities == 1..limits.qty
OrderIds   == 1..limits.orders

\* what a build may do with the undefined decrement of match_against, which
\* is only executed when the bid side is empty
TrapOutcomes == IF DOMAIN bids = {} THEN BOOLEAN ELSE {FALSE}

\* install the state a request leaves behind.  A request that returns false
\* has changed nothing; a fault ends the process with the request unfinished.
Commit(b) ==
    IF b.ub
    THEN /\ ub' = TRUE
         /\ UNCHANGED <<orders, bids, asks, order_index, next_sequence,
                        trade_count, total_volume, trades, fills>>
    ELSE /\ orders' = b.orders
         /\ bids' = b.bids
         /\ asks' = b.asks
         /\ order_index' = b.order_index
         /\ next_sequence' = b.next_sequence
         /\ trade_count' = b.trade_count
         /\ total_volume' = b.total_volume
         /\ trades' = b.trades
         /\ fills' = b.fills
         /\ ub' = FALSE

\* no ring buffer, arena or agent takes part in the run
NoRing ==
    /\ write_pos_ = 0
    /\ read_pos_ = 0
    /\ buffer_ = <<>>
    /\ producer = [pc |-> "none"]
    /\ consumer = [pc |-> "none"]
    /\ pushed = <<>>
    /\ popped = <<>>

NoArena ==
    /\ free_head_ = 0
    /\ capacity_ = 0
    /\ allocated_ = 0
    /\ slabs_ = <<>>
    /\ node_next = <<>>
    /\ live = {}
    /\ arena_call = [op |-> "none"]

NoAgent == agent_call = [op |-> "none"]

NoAux == NoRing /\ NoArena /\ NoAgent

\* EngineStats as constructed
NoStats == [total_orders |-> 0, total_cancels |-> 0, total_amends |-> 0,
            total_trades |-> 0, total_volume |-> 0, total_rejects |-> 0]

NoCalls == [accepted |-> 0, cancelled |-> 0, amended |-> 0, unknown |-> 0]

\* SimulationData as constructed
NoData == [trades |-> <<>>, midprices |-> <<>>, quoted_spreads |-> <<>>,
           trade_records |-> <<>>, total_orders |-> 0, total_cancels |-> 0]

\* a book used on its own: there is no engine, simulator or feed
NoEngine ==
    /\ books_ = <<>>
    /\ stats_ = NoStats
    /\ global_trade_callback_ = "unset"
    /\ trade_callback_ = <<>>
    /\ data = NoData
    /\ messages_ = <<>>
    /\ calls = NoCalls
    /\ pc = "none"

Init ==
    /\ orders = <<>>
    /\ bids = <<>>
    /\ asks = <<>>
    /\ order_index = <<>>
    /\ next_sequence = 1
    /\ trade_count = 0
    /\ total_volume = 0
    /\ trades = <<>>
    /\ fills = <<>>
    /\ cancelled_at = <<>>
    /\ amends_applied = 0
    /\ limits \in Profiles
    /\ ub = FALSE
    /\ NoEngine
    /\ NoAux

\* add_order with a fresh id
AddOrder ==
    /\ ~ub
    /\ Len(orders) < limits.orders
    /\ next_sequence <= MaxSeq
    /\ \E side \in Sides, type \in OrderTypes, qty \in Quantities, trap \in TrapOutcomes :
         \E price \in RequestPrices(type) :
           LET req == [id |-> Len(orders) + 1, side |-> side, type |-> type,
                       price |-> price, quantity |-> qty]
           IN  Commit(add_order([Book EXCEPT !.trap = trap], req))
    /\ UNCHANGED <<cancelled_at, amends_applied, limits, engine_vars, aux_vars>>

CancelOrder ==
    /\ ~ub
    /\ \E id \in OrderIds :
         LET b == cancel_order(Book, id)
         IN  /\ Commit(b)
             /\ cancelled_at' = IF b.ret THEN MapPut(cancelled_at, id, Len(trades))
                                ELSE cancelled_at
    /\ UNCHANGED <<amends_applied, limits, engine_vars, aux_vars>>

AmendOrder ==
    /\ ~ub
    /\ next_sequence <= MaxSeq
    /\ amends_applied < limits.amends
    /\ \E id \in OrderIds, new_price \in 0..MaxPrice, new_quantity \in 0..limits.qty,
          trap \in TrapOutcomes :
         LET req == [order_id |-> id, new_price |-> new_price,
                     new_quantity |-> new_quantity]
             b   == amend_order([Book EXCEPT !.trap = trap], req)
         IN  /\ Commit(b)
             /\ amends_applied' = IF b.amended /\ ~b.ub THEN amends_applied + 1
                                  ELSE amends_applied
    /\ UNCHANGED <<cancelled_at, limits, engine_vars, aux_vars>>

Next == AddOrder \/ CancelOrder \/ AmendOrder

Spec == Init /\ [][Next]_vars

\* the boxes of the runs that send any NewOrderRequest: one whose quantities
\* start at zero, one whose requests may name an id that was used before, and
\* one of limit orders only with a wider range of quantities from zero
OpenProfiles ==
    {[orders |-> ZeroOrders, qty |-> ZeroQty, amends |-> ZeroAmends,
      least_qty |-> 0, fresh_ids |-> TRUE, types |-> OrderTypes],
     [orders |-> AnyIdOrders, qty |-> AnyIdQty, amends |-> AnyIdAmends,
      least_qty |-> 1, fresh_ids |-> FALSE, types |-> OrderTypes],
     [orders |-> PassiveOrders, qty |-> PassiveQty, amends |-> PassiveAmends,
      least_qty |-> 0, fresh_ids |-> TRUE, types |-> {"Limit"}]}

\* The same book driven by any NewOrderRequest: OrderBook does not look at the
\* id or the quantity of a request before it admits the order.
InitOpen ==
    /\ orders = <<>>
    /\ bids = <<>>
    /\ asks = <<>>
    /\ order_index = <<>>
    /\ next_sequence = 1
    /\ trade_count = 0
    /\ total_volume = 0
    /\ trades = <<>>
    /\ fills = <<>>
    /\ cancelled_at = <<>>
    /\ amends_applied = 0
    /\ limits \in OpenProfiles
    /\ ub = FALSE
    /\ NoEngine
    /\ NoAux

\* add_order with any id and any quantity
AddOrderOpen ==
    /\ ~ub
    /\ Len(orders) < limits.orders
    /\ next_sequence <= MaxSeq
    /\ \E id \in (IF limits.fresh_ids THEN {Len(orders) + 1} ELSE OrderIds),
          side \in Sides, type \in limits.types,
          qty \in limits.least_qty..limits.qty, trap \in TrapOutcomes :
         \E price \in RequestPrices(type) :
           LET req == [id |-> id, side |-> side, type |-> type,
                       price |-> price, quantity |-> qty]
           IN  Commit(add_order([Book EXCEPT !.trap = trap], req))
    /\ UNCHANGED <<cancelled_at, amends_applied, limits, engine_vars, aux_vars>>

NextOpen == AddOrderOpen \/ CancelOrder \/ AmendOrder

SpecOpen == InitOpen /\ [][NextOpen]_vars

----------------------------------------------------------------------------
\* MatchingEngine.h: the facade over one book per symbol

\* the box of the runs through the facade
EngineOrders  == 2
EngineQty     == 2
EngineAmends  == 1
EngineUnknown == 1

EngineProfiles == {[orders |-> EngineOrders, qty |-> EngineQty,
                    amends |-> EngineAmends, unknown |-> EngineUnknown]}

\* the symbols a request can name; one is unknown until add_symbol registers it
Symbols == {"AAPL", "MSFT"}

\* OrderBook(symbol): an empty book without callbacks
NewBook == [orders |-> <<>>, bids |-> <<>>, asks |-> <<>>, order_index |-> <<>>,
            next_sequence |-> 1, trade_count |-> 0, total_volume |-> 0,
            trades |-> <<>>, fills |-> <<>>, ub |-> FALSE, ret |-> FALSE,
            trap |-> FALSE, amended |-> FALSE]

\* the engine, and what its callbacks write to, as one value
World == [books_ |-> books_, stats_ |-> stats_,
          global_trade_callback_ |-> global_trade_callback_,
          trade_callback_ |-> trade_callback_, data |-> data,
          messages_ |-> messages_, ub |-> FALSE, ret |-> FALSE]

\* the callback Simulator::run hands to the engine: data.trades.push_back(trade)
collect(w, trade) == [w EXCEPT !.data.trades = Append(@, trade)]

\* on_trade that counts a trade only when a global callback is installed
on_trade_observed(w, trade) ==
    IF w.global_trade_callback_ = "collect"
    THEN collect([w EXCEPT !.stats_.total_trades = @ + 1,
                           !.stats_.total_volume = QAdd(@, trade.quantity)], trade)
    ELSE w

on_trade(w, trade) ==
    LET w1 == [w EXCEPT !.stats_.total_trades = @ + 1,
                        !.stats_.total_volume = QAdd(@, trade.quantity)]
    IN  IF w.global_trade_callback_ = "collect" THEN collect(w1, trade) ELSE w1

\* FeedPublisher::publish_trade, as called from the callback attach installs
publish_trade(w, trade) == [w EXCEPT !.messages_ = Append(@, trade)]

\* if (trade_callback_) trade_callback_(trade), for the book of `sym`
trade_callback(w, sym, trade) ==
    IF w.trade_callback_[sym] = "engine" THEN on_trade(w, trade)
    ELSE IF w.trade_callback_[sym] = "feed" THEN publish_trade(w, trade)
    ELSE w

RECURSIVE Deliver(_, _, _)
Deliver(w, sym, ts) ==
    IF ts = <<>> THEN w
    ELSE Deliver(trade_callback(w, sym, Head(ts)), sym, Tail(ts))

\* a call into the book of `sym` that left it as b2: every trade it executed
\* has gone through the book's trade callback
Delegate(w, sym, b2) ==
    LET b  == w.books_[sym]
        w1 == [w EXCEPT !.books_[sym] = [b2 EXCEPT !.ret = FALSE, !.trap = FALSE,
                                                   !.amended = FALSE],
                        !.ub = b2.ub, !.ret = b2.ret]
    IN  Deliver(w1, sym, SubSeq(b2.trades, Len(b.trades) + 1, Len(b2.trades)))

\* OrderBook::set_trade_callback on the book of `sym`
set_trade_callback(w, sym, cb) == [w EXCEPT !.trade_callback_[sym] = cb]

add_symbol(w, sym) ==
    IF sym \in DOMAIN w.books_ THEN w
    ELSE set_trade_callback([w EXCEPT !.books_ = MapPut(@, sym, NewBook),
                                      !.trade_callback_ = MapPut(@, sym, "none")],
                            sym, "engine")

\* MatchingEngine::set_trade_callback
engine_set_trade_callback(w, cb) == [w EXCEPT !.global_trade_callback_ = cb]

\* returns nullptr (ret FALSE) or the order add_order returns (ret TRUE)
engine_submit_order(w, req, trap) ==
    IF req.symbol \notin DOMAIN w.books_
    THEN [w EXCEPT !.stats_.total_rejects = @ + 1, !.ret = FALSE]
    ELSE Delegate([w EXCEPT !.stats_.total_orders = @ + 1], req.symbol,
                  add_order([w.books_[req.symbol] EXCEPT !.trap = trap], req))

\* if (success) ++stats_.<counter>; return success;
CountSuccess(w, counter) ==
    IF w.ret /\ ~w.ub THEN [w EXCEPT !.stats_[counter] = @ + 1] ELSE w

engine_cancel_order(w, req) ==
    IF req.symbol \notin DOMAIN w.books_ THEN [w EXCEPT !.ret = FALSE]
    ELSE CountSuccess(Delegate(w, req.symbol,
                               cancel_order(w.books_[req.symbol], req.order_id)),
                      "total_cancels")

engine_amend_order(w, req, trap) ==
    IF req.symbol \notin DOMAIN w.books_ THEN [w EXCEPT !.ret = FALSE]
    ELSE CountSuccess(Delegate(w, req.symbol,
                               amend_order([w.books_[req.symbol] EXCEPT !.trap = trap],
                                           req)),
                      "total_amends")

\* what a build may do with the undefined decrement, for the book of `sym`
SymbolTrapOutcomes(sym) ==
    IF sym \in DOMAIN books_ /\ DOMAIN books_[sym].bids = {} THEN BOOLEAN ELSE {FALSE}

\* install what a facade call leaves behind; a fault ends the process
EngineCommit(w) ==
    IF w.ub
    THEN /\ ub' = TRUE
         /\ UNCHANGED <<books_, stats_, global_trade_callback_, trade_callback_,
                        data, messages_>>
    ELSE /\ books_' = w.books_
         /\ stats_' = w.stats_
         /\ global_trade_callback_' = w.global_trade_callback_
         /\ trade_callback_' = w.trade_callback_
         /\ data' = w.data
         /\ messages_' = w.messages_
         /\ ub' = FALSE

\* the book variables of a run that has no book outside the engine
NoBook ==
    /\ orders = <<>>
    /\ bids = <<>>
    /\ asks = <<>>
    /\ order_index = <<>>
    /\ next_sequence = 1
    /\ trade_count = 0
    /\ total_volume = 0
    /\ trades = <<>>
    /\ fills = <<>>
    /\ cancelled_at = <<>>
    /\ amends_applied = 0

InitEngine ==
    /\ NoBook
    /\ limits \in EngineProfiles
    /\ ub = FALSE
    /\ NoEngine
    /\ NoAux

AddSymbol ==
    /\ ~ub
    /\ \E sym \in Symbols : EngineCommit(add_symbol(World, sym))
    /\ UNCHANGED <<aux_vars, book_vars, limits, calls, pc>>

SetTradeCallback ==
    /\ ~ub
    /\ \E cb \in {"unset", "collect"} : EngineCommit(engine_set_trade_callback(World, cb))
    /\ UNCHANGED <<aux_vars, book_vars, limits, calls, pc>>

\* a facade call for `sym` has returned w: install it and note in `counter`
\* of the observer whether it succeeded, and whether the symbol was unknown
Returned(w, sym, counter) ==
    /\ EngineCommit(w)
    /\ calls' = IF w.ub THEN calls
                ELSE [calls EXCEPT ![counter] = @ + (IF w.ret THEN 1 ELSE 0),
                                   !.unknown = @ + (IF sym \in DOMAIN books_
                                                    THEN 0 ELSE 1)]

SubmitOrder ==
    /\ ~ub
    /\ \E sym \in Symbols, side \in Sides, type \in OrderTypes, qty \in Quantities :
         \E price \in RequestPrices(type), trap \in SymbolTrapOutcomes(sym) :
           LET req == [id |-> stats_.total_orders + 1, side |-> side, type |-> type,
                       price |-> price, quantity |-> qty, symbol |-> sym]
           IN  /\ IF sym \in DOMAIN books_
                  THEN stats_.total_orders < limits.orders
                       /\ books_[sym].next_sequence <= MaxSeq
                  ELSE calls.unknown < limits.unknown
               /\ Returned(engine_submit_order(World, req, trap), sym, "accepted")
    /\ UNCHANGED <<aux_vars, book_vars, limits, pc>>

EngineCancelOrder ==
    /\ ~ub
    /\ \E sym \in Symbols, id \in OrderIds :
         /\ sym \notin DOMAIN books_ => calls.unknown < limits.unknown
         /\ Returned(engine_cancel_order(World, [order_id |-> id, symbol |-> sym]),
                     sym, "cancelled")
    /\ UNCHANGED <<aux_vars, book_vars, limits, pc>>

EngineAmendOrder ==
    /\ ~ub
    /\ stats_.total_amends < limits.amends
    /\ \E sym \in Symbols, id \in OrderIds, new_price \in 0..MaxPrice,
          new_quantity \in 0..limits.qty :
         \E trap \in SymbolTrapOutcomes(sym) :
           LET req == [order_id |-> id, new_price |-> new_price,
                       new_quantity |-> new_quantity, symbol |-> sym]
           IN  /\ IF sym \in DOMAIN books_
                  THEN books_[sym].next_sequence <= MaxSeq
                  ELSE calls.unknown < limits.unknown
               /\ Returned(engine_amend_order(World, req, trap), sym, "amended")
    /\ UNCHANGED <<aux_vars, book_vars, limits, pc>>

NextEngine ==
    AddSymbol \/ SetTradeCallback \/ SubmitOrder \/ EngineCancelOrder \/ EngineAmendOrder

SpecEngine == InitEngine /\ [][NextEngine]_vars

----------------------------------------------------------------------------
\* Simulator.h: one run of the simulator

\* the box of a simulator run, quantities counted in units of 50 shares
SimEvents    == 3
SimLots      == 2
SimOffset    == 1
SimInitPrice == 2
SeedLevels   == 1
SeedPerLevel == 1

\* program constants
LotSize       == 2
SeedBaseQty   == 2
SeedIdStride  == 100
SeedAskIdBase == 50
FirstEventId  == 10000
SweepPeriod   == 50
StaleDistance == 15
DefaultSpread == 2

SimProfiles == {[events |-> SimEvents, lots |-> SimLots, offset |-> SimOffset]}

SimSymbol == "AAPL"

\* FeedPublisher::attach: the book's trade callback becomes the publisher's
attach(w, sym) == set_trade_callback(w, sym, "feed")

\* book->midprice().value_or(dflt) and book->spread().value_or(dflt)
midprice_or(b, dflt) ==
    IF DOMAIN b.bids = {} \/ DOMAIN b.asks = {} THEN dflt
    ELSE (best_bid(b) + best_ask(b)) \div 2
spread_or(b, dflt) ==
    IF DOMAIN b.bids = {} \/ DOMAIN b.asks = {} THEN dflt
    ELSE best_ask(b) - best_bid(b)

\* the requests of seed_book in the order it submits them: per level i and
\* slot j one bid below and one ask above init_price
SeedRequest(k) ==
    LET pair == (k - 1) \div 2
        i    == pair \div SeedPerLevel + 1
        j    == pair % SeedPerLevel
        bid  == k % 2 = 1
    IN  [id       |-> i * SeedIdStride + j + (IF bid THEN 0 ELSE SeedAskIdBase),
         side     |-> IF bid THEN "Buy" ELSE "Sell",
         type     |-> "Limit",
         price    |-> IF bid THEN SimInitPrice - i ELSE SimInitPrice + i,
         quantity |-> SeedBaseQty + j,
         symbol   |-> SimSymbol]

RECURSIVE seed_book(_, _)
seed_book(w, k) ==
    IF k > 2 * SeedLevels * SeedPerLevel \/ w.ub THEN w
    ELSE seed_book(engine_submit_order(w, SeedRequest(k), FALSE), k + 1)

\* ZIAgent::generate_order: a market order, or a limit order at `offset`
\* ticks on the passive side of mid and at least 1; a whole number of lots
generate_order(mid, is_buy_side, market, offset, lots, id) ==
    [id       |-> id,
     side     |-> IF is_buy_side THEN "Buy" ELSE "Sell",
     type     |-> IF market THEN "Market" ELSE "Limit",
     price    |-> IF market THEN PRICE_MARKET
                  ELSE LET p == IF is_buy_side THEN mid - offset ELSE mid + offset
                       IN  IF p < 1 THEN 1 ELSE p,
     quantity |-> lots * LotSize,
     symbol   |-> SimSymbol]

\* cancel_stale_orders: counts the levels far from mid, cancels nothing
cancel_stale_orders(b) ==
    LET mid    == midprice_or(b, SimInitPrice)
        Far(p) == p - mid > StaleDistance \/ mid - p > StaleDistance
    IN  Cardinality({p \in DOMAIN b.bids : Far(p)})
          + Cardinality({p \in DOMAIN b.asks : Far(p)})

\* one TradeRecord per trade that reached data.trades during this event
RECURSIVE Records(_, _, _, _)
Records(ts, from, mid_before, mid_after) ==
    IF from > Len(ts) THEN <<>>
    ELSE <<[trade_price |-> ts[from].price, mid_before |-> mid_before,
            mid_after_1s |-> mid_after, mid_after_5s |-> mid_after,
            volume |-> ts[from].quantity, aggressor |-> ts[from].aggressor]>>
         \o Records(ts, from + 1, mid_before, mid_after)

\* the rest of a pass of the event loop once submit_order has returned w
record_event(w, idx, trades_before, mid_before) ==
    LET after == w.books_[SimSymbol]
        recs  == Records(w.data.trades, trades_before + 1, mid_before,
                         midprice_or(after, mid_before))
        swept == IF idx % SweepPeriod = 0 THEN cancel_stale_orders(after) ELSE 0
    IN  IF w.ub THEN w
        ELSE [w EXCEPT !.data.trade_records = @ \o recs,
                       !.data.total_cancels = @ + swept]

\* one pass of the event loop of Simulator::run
process_event(w, is_buy_side, market, offset, lots, trap) ==
    LET idx  == Len(w.data.midprices)
        book == w.books_[SimSymbol]
        mid  == midprice_or(book, SimInitPrice)
        sprd == spread_or(book, DefaultSpread)
        w1   == [w EXCEPT !.data.midprices = Append(@, mid),
                          !.data.quoted_spreads = Append(@, sprd)]
        req  == generate_order(mid, is_buy_side, market, offset, lots,
                               FirstEventId + idx)
    IN  record_event(engine_submit_order(w1, req, trap), idx,
                     Len(w.data.trades), mid)

InitSim ==
    /\ NoBook
    /\ limits \in SimProfiles
    /\ ub = FALSE
    /\ books_ = <<>>
    /\ stats_ = NoStats
    /\ global_trade_callback_ = "unset"
    /\ trade_callback_ = <<>>
    /\ data = NoData
    /\ messages_ = <<>>
    /\ calls = NoCalls
    /\ pc = "setup"
    /\ NoAux

\* engine.add_symbol, feed.attach(*book), engine.set_trade_callback
Setup ==
    /\ ~ub
    /\ pc = "setup"
    /\ EngineCommit(engine_set_trade_callback(
                      attach(add_symbol(World, SimSymbol), SimSymbol), "collect"))
    /\ pc' = "seed"
    /\ UNCHANGED <<aux_vars, book_vars, limits, calls>>

SeedBook ==
    /\ ~ub
    /\ pc = "seed"
    /\ EngineCommit(seed_book(World, 1))
    /\ pc' = "events"
    /\ UNCHANGED <<aux_vars, book_vars, limits, calls>>

ProcessEvent ==
    /\ ~ub
    /\ pc = "events"
    /\ Len(data.midprices) < limits.events
    /\ \E is_buy_side \in BOOLEAN, market \in BOOLEAN, lots \in 1..limits.lots :
         \E offset \in (IF market THEN {0} ELSE 0..limits.offset),
            trap \in SymbolTrapOutcomes(SimSymbol) :
           EngineCommit(process_event(World, is_buy_side, market, offset, lots, trap))
    /\ UNCHANGED <<aux_vars, book_vars, limits, calls, pc>>

\* the loop is over: data.total_orders = events.size(), and data is returned
Finish ==
    /\ ~ub
    /\ pc = "events"
    /\ data' = [data EXCEPT !.total_orders = Len(data.midprices)]
    /\ pc' = "done"
    /\ UNCHANGED <<aux_vars, book_vars, limits, ub, books_, stats_, global_trade_callback_,
                   trade_callback_, messages_, calls>>

NextSim == Setup \/ SeedBook \/ ProcessEvent \/ Finish

SpecSim == InitSim /\ [][NextSim]_vars

----------------------------------------------------------------------------
\* SPSCRingBuffer.h: one producer thread in push, one consumer thread in pop

\* the box of a ring-buffer run: the template argument and the items pushed
RingCapacity == 4
RingItems    == 6

RingProfiles == {[items |-> RingItems]}

\* (p + 1) & MASK
NextPos(p) == (p + 1) % RingCapacity

\* a push that never finds the buffer full
push_full_never(next, read) == FALSE

\* if (next == read_pos_.load(acquire)) return false
push_full(next, read) == next = read

\* a pop that never finds the buffer empty
pop_empty_never(read, write) == FALSE

\* if (read == write_pos_.load(acquire)) return nullopt
pop_empty(read, write) == read = write

\* size(): (w - r) & MASK, and capacity()
size == (write_pos_ - read_pos_) % RingCapacity
capacity == RingCapacity - 1

\* a slot in the middle of a copy holds no item
Torn == "torn"

\* An acquire load of the other thread's index returns the value of some
\* store to it that is not older than the one this thread saw last.  The n-th
\* store to an index wrote n & MASK, so a view is the number of a store,
\* between the last one seen and the latest.
Views(seen, latest) == seen..latest

IdleProducer == [pc |-> "idle", write |-> 0, next |-> 0, item |-> 0, seen |-> 0]
IdleConsumer == [pc |-> "idle", read |-> 0, item |-> 0, seen |-> 0]

InitRing ==
    /\ NoBook
    /\ limits \in RingProfiles
    /\ ub = FALSE
    /\ NoEngine
    /\ NoArena
    /\ NoAgent
    /\ write_pos_ = 0
    /\ read_pos_ = 0
    /\ buffer_ = [i \in 0..(RingCapacity - 1) |-> 0]
    /\ producer = IdleProducer
    /\ consumer = IdleConsumer
    /\ pushed = <<>>
    /\ popped = <<>>

\* push: write = write_pos_.load(relaxed); next = (write + 1) & MASK
PushLoadWrite ==
    /\ producer.pc = "idle"
    /\ Len(pushed) < limits.items
    /\ producer' = [producer EXCEPT !.pc = "load_read", !.write = write_pos_,
                                    !.next = NextPos(write_pos_),
                                    !.item = Len(pushed) + 1]
    /\ UNCHANGED <<not_ring_vars, write_pos_, read_pos_, buffer_, consumer, pushed, popped>>

\* push: the acquire load of read_pos_ and the test for full
PushLoadRead ==
    /\ producer.pc = "load_read"
    /\ \E n \in Views(producer.seen, Len(popped)) :
         producer' = [producer EXCEPT
                        !.seen = n,
                        !.pc = IF push_full(producer.next, n % RingCapacity)
                               THEN "idle" ELSE "write"]
    /\ UNCHANGED <<not_ring_vars, write_pos_, read_pos_, buffer_, consumer, pushed, popped>>

\* push: buffer_[write] = item, a copy that is not atomic
PushWriteBegin ==
    /\ producer.pc = "write"
    /\ buffer_' = [buffer_ EXCEPT ![producer.write] = Torn]
    /\ producer' = [producer EXCEPT !.pc = "write_end"]
    /\ UNCHANGED <<not_ring_vars, write_pos_, read_pos_, consumer, pushed, popped>>

PushWriteEnd ==
    /\ producer.pc = "write_end"
    /\ buffer_' = [buffer_ EXCEPT ![producer.write] = producer.item]
    /\ producer' = [producer EXCEPT !.pc = "store"]
    /\ UNCHANGED <<not_ring_vars, write_pos_, read_pos_, consumer, pushed, popped>>

\* push: write_pos_.store(next, release); return true
PushStore ==
    /\ producer.pc = "store"
    /\ write_pos_' = producer.next
    /\ pushed' = Append(pushed, producer.item)
    /\ producer' = [producer EXCEPT !.pc = "idle"]
    /\ UNCHANGED <<not_ring_vars, read_pos_, buffer_, consumer, popped>>

\* pop: read = read_pos_.load(relaxed)
PopLoadRead ==
    /\ consumer.pc = "idle"
    /\ Len(popped) < limits.items
    /\ consumer' = [consumer EXCEPT !.pc = "load_write", !.read = read_pos_]
    /\ UNCHANGED <<not_ring_vars, write_pos_, read_pos_, buffer_, producer, pushed, popped>>

\* pop: the acquire load of write_pos_ and the test for empty
PopLoadWrite ==
    /\ consumer.pc = "load_write"
    /\ \E n \in Views(consumer.seen, Len(pushed)) :
         consumer' = [consumer EXCEPT
                        !.seen = n,
                        !.pc = IF pop_empty(consumer.read, n % RingCapacity)
                               THEN "idle" ELSE "copy"]
    /\ UNCHANGED <<not_ring_vars, write_pos_, read_pos_, buffer_, producer, pushed, popped>>

\* pop: T item = buffer_[read], a copy that is not atomic: it ends with what
\* the slot holds then
PopCopyBegin ==
    /\ consumer.pc = "copy"
    /\ consumer' = [consumer EXCEPT !.pc = "copy_end"]
    /\ UNCHANGED <<not_ring_vars, write_pos_, read_pos_, buffer_, producer, pushed, popped>>

PopCopyEnd ==
    /\ consumer.pc = "copy_end"
    /\ consumer' = [consumer EXCEPT !.pc = "store", !.item = buffer_[consumer.read]]
    /\ UNCHANGED <<not_ring_vars, write_pos_, read_pos_, buffer_, producer, pushed, popped>>

\* pop: read_pos_.store((read + 1) & MASK, release); return item
PopStore ==
    /\ consumer.pc = "store"
    /\ read_pos_' = NextPos(consumer.read)
    /\ popped' = Append(popped, consumer.item)
    /\ consumer' = [consumer EXCEPT !.pc = "idle"]
    /\ UNCHANGED <<not_ring_vars, write_pos_, buffer_, producer, pushed>>

NextRing ==
    \/ PushLoadWrite \/ PushLoadRead \/ PushWriteBegin \/ PushWriteEnd \/ PushStore
    \/ PopLoadRead \/ PopLoadWrite \/ PopCopyBegin \/ PopCopyEnd \/ PopStore

SpecRing == InitRing /\ [][NextRing]_vars

----------------------------------------------------------------------------
\* ArenaAllocator.h: slots are numbered 1, 2, ... in the order the slabs are
\* made, node_next[s] is the next field of slot s, NULL is 0

\* the box of an arena run: initial_capacity is 1..ArenaInitial, and at most
\* ArenaOps calls of allocate and deallocate follow the constructor
ArenaInitial == 2
ArenaOps     == 7

ArenaProfiles == {[initial |-> n, ops |-> ArenaOps] : n \in 1..ArenaInitial}

\* the members of the allocator
Arena == [free_head_ |-> free_head_, capacity_ |-> capacity_, allocated_ |-> allocated_,
          slabs_ |-> slabs_, node_next |-> node_next]

\* the members before the constructor ran (the default member initialisers)
NewArena == [free_head_ |-> 0, capacity_ |-> 0, allocated_ |-> 0,
             slabs_ |-> <<>>, node_next |-> <<>>]

\* grow(count): a slab of count slots, threaded front to back, the last one
\* linked to the old free list; a slab is kept in slabs_ by its size
grow(a, count) ==
    LET raw == Len(a.node_next) + 1
    IN [a EXCEPT !.node_next = @ \o [i \in 1..count |->
                                       IF i + 1 <= count THEN raw + i ELSE a.free_head_],
                 !.free_head_ = raw,
                 !.capacity_ = @ + count,
                 !.slabs_ = Append(@, count)]

\* ArenaAllocator(initial_capacity): capacity_(initial_capacity), then grow
ArenaAllocator(initial_capacity) ==
    grow([NewArena EXCEPT !.capacity_ = initial_capacity], initial_capacity)

\* if (!free_head_) grow(capacity_ * 2)
refill(a) == IF a.free_head_ = 0 THEN grow(a, a.capacity_ * 2) ELSE a

\* an allocate that leaves the head of the free list where it is
unlink_stuck(a) == [a EXCEPT !.allocated_ = @ + 1]

\* node = free_head_; free_head_ = node->next; ++allocated_
unlink(a) == [a EXCEPT !.free_head_ = a.node_next[a.free_head_], !.allocated_ = @ + 1]

\* allocate(): the members afterwards (the slot returned is the head that
\* refill leaves)
allocate(a) == unlink(refill(a))

\* deallocate(ptr): node->next = free_head_; free_head_ = node; --allocated_
deallocate(a, ptr) ==
    [a EXCEPT !.node_next[ptr] = a.free_head_, !.free_head_ = ptr, !.allocated_ = @ - 1]

\* the free list, walked from free_head_ (at most every slot once)
RECURSIVE FreeWalk(_, _, _)
FreeWalk(a, node, fuel) ==
    IF node = 0 \/ fuel = 0 THEN <<>>
    ELSE <<node>> \o FreeWalk(a, a.node_next[node], fuel - 1)

FreeList(a) == FreeWalk(a, a.free_head_, Len(a.node_next) + 1)

\* the number of slots of all slabs
RECURSIVE SlabSlots(_)
SlabSlots(s) == IF s = <<>> THEN 0 ELSE Head(s) + SlabSlots(Tail(s))

ArenaCommit(a) ==
    /\ free_head_' = a.free_head_
    /\ capacity_' = a.capacity_
    /\ allocated_' = a.allocated_
    /\ slabs_' = a.slabs_
    /\ node_next' = a.node_next

\* what the observer keeps of a call: the call, the slot it returned or took,
\* the call before it with its slot, whether the free list was empty when it
\* started, and the calls of each kind so far
NoArenaCall == [op |-> "none", slot |-> 0, prev |-> "none", prev_slot |-> 0,
                was_empty |-> FALSE, was_live |-> FALSE, allocates |-> 0, deallocates |-> 0]

InitArena ==
    /\ NoBook
    /\ limits \in ArenaProfiles
    /\ ub = FALSE
    /\ NoEngine
    /\ NoRing
    /\ NoAgent
    /\ free_head_ = NewArena.free_head_
    /\ capacity_ = NewArena.capacity_
    /\ allocated_ = NewArena.allocated_
    /\ slabs_ = NewArena.slabs_
    /\ node_next = NewArena.node_next
    /\ live = {}
    /\ arena_call = NoArenaCall

Construct ==
    /\ arena_call.op = "none"
    /\ ArenaCommit(ArenaAllocator(limits.initial))
    /\ arena_call' = [NoArenaCall EXCEPT !.op = "construct"]
    /\ UNCHANGED <<not_arena_vars, live>>

Called(before, op, slot) ==
    [op |-> op, slot |-> slot, prev |-> arena_call.op, prev_slot |-> arena_call.slot,
     was_empty |-> before.free_head_ = 0, was_live |-> slot \in live,
     allocates |-> arena_call.allocates + (IF op = "allocate" THEN 1 ELSE 0),
     deallocates |-> arena_call.deallocates + (IF op = "deallocate" THEN 1 ELSE 0)]

Allocate ==
    /\ arena_call.op # "none"
    /\ arena_call.allocates + arena_call.deallocates < limits.ops
    /\ ArenaCommit(allocate(Arena))
    /\ arena_call' = Called(Arena, "allocate", refill(Arena).free_head_)
    /\ live' = live \cup {refill(Arena).free_head_}
    /\ UNCHANGED not_arena_vars

\* the caller releases a slot it holds
Deallocate ==
    /\ arena_call.op # "none"
    /\ arena_call.allocates + arena_call.deallocates < limits.ops
    /\ \E ptr \in live :
         /\ ArenaCommit(deallocate(Arena, ptr))
         /\ arena_call' = Called(Arena, "deallocate", ptr)
         /\ live' = live \ {ptr}
    /\ UNCHANGED not_arena_vars

NextArena == Construct \/ Allocate \/ Deallocate

SpecArena == InitArena /\ [][NextArena]_vars

----------------------------------------------------------------------------
\* ZIAgent.h: generate_order as a function of its arguments and of what the
\* three draws give: uniform_ < market_order_prob (market), the whole ticks of
\* |normal_| (offset) and the rounded log-normal size cast to Quantity (raw)

\* the box of the agent's calls: mid_price is -1..AgentMid, the offset is
\* 0..AgentOffset ticks, and Quantity has AgentQtyBits bits
AgentMid     == 3
AgentOffset  == 3
AgentQtyBits == 9

AgentQtyMod == 2 ^ AgentQtyBits

AgentProfiles == {[mid |-> AgentMid, offset |-> AgentOffset]}

\* program constants: the lot of 100 shares and the 50 added before dividing
LotShares == 100
HalfLot   == 50

\* the price placement before the clamp: mid_price -/+ static_cast<Price>(offset)
placement(mid_price, is_buy_side, offset) ==
    IF is_buy_side THEN mid_price - offset ELSE mid_price + offset

\* req.price = std::max(Price(1), req.price)
clamp_price(p) == IF p < 1 THEN 1 ELSE p

\* a rounding to lots that keeps a result of 0
lot_quantity_bare(raw) ==
    LET q == IF raw < 1 THEN 1 ELSE raw
    IN  (((q + HalfLot) % AgentQtyMod) \div LotShares) * LotShares

\* quantity = max(1, raw); quantity = ((quantity + 50) / 100) * 100;
\* if (quantity == 0) quantity = 100
lot_quantity(raw) ==
    LET q == IF raw < 1 THEN 1 ELSE raw
        r == (((q + HalfLot) % AgentQtyMod) \div LotShares) * LotShares
    IN  IF r = 0 THEN LotShares ELSE r

\* ZIAgent::generate_order, every field of the request it returns
ZIAgent_generate_order(mid_price, is_buy_side, market, offset, raw, next_order_id, symbol) ==
    [id       |-> next_order_id,
     side     |-> IF is_buy_side THEN "Buy" ELSE "Sell",
     symbol   |-> symbol,
     type     |-> IF market THEN "Market" ELSE "Limit",
     tif      |-> IF market THEN "IOC" ELSE "GTC",
     price    |-> IF market THEN PRICE_MARKET
                  ELSE clamp_price(placement(mid_price, is_buy_side, offset)),
     quantity |-> lot_quantity(raw)]

InitAgent ==
    /\ NoBook
    /\ limits \in AgentProfiles
    /\ ub = FALSE
    /\ NoEngine
    /\ NoRing
    /\ NoArena
    /\ NoAgent

\* one call of generate_order; the observer keeps the arguments, the draws
\* and the request returned
GenerateOrder ==
    /\ agent_call.op = "none"
    /\ \E mid_price \in -1..limits.mid, is_buy_side \in BOOLEAN, market \in BOOLEAN,
          offset \in 0..limits.offset, raw \in 0..(AgentQtyMod - 1) :
         agent_call' = [op |-> "generate_order", mid_price |-> mid_price,
                        is_buy |-> is_buy_side, market |-> market,
                        offset |-> offset, raw |-> raw,
                        req |-> ZIAgent_generate_order(mid_price, is_buy_side, market,
                                                       offset, raw, FirstEventId, SimSymbol)]
    /\ UNCHANGED not_agent_vars

NextAgent == GenerateOrder

SpecAgent == InitAgent /\ [][NextAgent]_vars

----------------------------------------------------------------------------
\* Vocabulary of the properties

Slots == 1..Len(orders)

SeqToSet(q) == {q[i] : i \in 1..Len(q)}

\* the orders linked in some level of the book b
LinkedIn(b, side) ==
    UNION {SeqToSet(LevelOrders(b.orders, SideLevels(b, side)[p])) :
             p \in DOMAIN SideLevels(b, side)}
Linked(b) == LinkedIn(b, "Buy") \cup LinkedIn(b, "Sell")

RECURSIVE SumOver(_, _)
SumOver(f, S) ==
    IF S = {} THEN 0
    ELSE LET x == CHOOSE y \in S : TRUE IN f[x] + SumOver(f, S \ {x})

\* fills i and j were made by the same request: the same incoming order under
\* the sequence number that request gave it
SameRequest(i, j) ==
    /\ fills[i].agg = fills[j].agg
    /\ fills[i].agg_pre.sequence = fills[j].agg_pre.sequence

Better(side, p, q) == IF side = "Buy" THEN p < q ELSE p > q

----------------------------------------------------------------------------
\* C1 No crossed book: whenever both sides hold a level, the highest bid price
\* is strictly below the lowest ask price.
C1_NoCrossedBook ==
    (DOMAIN bids # {} /\ DOMAIN asks # {}) => MaxKey(bids) < MinKey(asks)

\* both sides are populated one tick apart after some order has traded
C1_Witness ==
    /\ DOMAIN bids # {} /\ DOMAIN asks # {}
    /\ Len(trades) > 0
    /\ MaxKey(bids) + 1 = MinKey(asks)

\* C2 Quantity accounting: for every order filled_qty + leaves_qty <= quantity
\* as numbers (a leaves_qty that wrapped below zero is a huge number and breaks
\* it), with equality while the order is active, and leaves_qty = 0 once it is
\* Cancelled or Filled.
C2_QuantityAccounting ==
    \A s \in Slots :
      LET o == orders[s]
      IN  /\ o.filled_qty + o.leaves_qty <= o.quantity
          /\ is_active(o) => o.filled_qty + o.leaves_qty = o.quantity
          /\ o.status \in {"Cancelled", "Filled"} => o.leaves_qty = 0

\* C3 Conservation: the filled quantities of all orders ever submitted add up
\* to twice the quantities of all trades emitted.
C3_Conservation ==
    SumOver([s \in Slots |-> orders[s].filled_qty], Slots)
      = 2 * SumOver([i \in 1..Len(trades) |-> trades[i].quantity], 1..Len(trades))

\* two trades have happened, one of them against an order that had already been
\* partially filled
C3_Witness ==
    /\ Len(trades) >= 2
    /\ \E i \in 1..Len(fills) : fills[i].rest_pre.filled_qty > 0

\* C4 Per-trade conservation: each trade's quantity is the smaller of the two
\* leaves_qty just before the fill, is positive, and is what both orders lose
\* in leaves_qty and gain in filled_qty.
C4_PerTradeConservation ==
    \A i \in 1..Len(trades) :
      LET f == fills[i]
          q == trades[i].quantity
      IN  /\ q = QMin(f.agg_pre.leaves_qty, f.rest_pre.leaves_qty)
          /\ q > 0
          /\ f.agg_post.leaves_qty + q = f.agg_pre.leaves_qty
          /\ f.rest_post.leaves_qty + q = f.rest_pre.leaves_qty
          /\ f.agg_post.filled_qty = f.agg_pre.filled_qty + q
          /\ f.rest_post.filled_qty = f.rest_pre.filled_qty + q

\* a trade that filled the resting order only partly, and one that filled the
\* aggressor only partly
C4_Witness ==
    /\ \E i \in 1..Len(fills) : fills[i].rest_post.leaves_qty > 0
    /\ \E i \in 1..Len(fills) : fills[i].agg_post.leaves_qty > 0

\* C5 Time priority in matching: every fill goes to the order at the head of
\* its level, every other order queued there carries a later sequence number,
\* and the fills one request makes at one price run through resting orders of
\* ascending sequence, each one completely filled before the next is touched.
C5_TimePriority ==
    /\ \A i \in 1..Len(fills) :
         LET f == fills[i]
         IN  /\ Len(f.queue) >= 1
             /\ f.queue[1] = f.rest
             /\ \A k \in 2..Len(f.queue) : f.queue_seqs[k] > f.rest_pre.sequence
    /\ \A i, j \in 1..Len(fills) :
         (i < j /\ SameRequest(i, j) /\ fills[i].level_price = fills[j].level_price)
           => /\ fills[i].rest_pre.sequence < fills[j].rest_pre.sequence
              /\ fills[i].rest_post.leaves_qty = 0

\* one request filled two orders queued at the same price
C5_Witness ==
    \E i, j \in 1..Len(fills) :
      /\ i < j /\ SameRequest(i, j)
      /\ fills[i].level_price = fills[j].level_price
      /\ Len(fills[i].queue) >= 2

\* C6 FIFO link invariant: in every level of either side the orders, read from
\* head to tail, have strictly ascending sequence numbers.
C6_FifoLinks ==
    \A side \in Sides : \A p \in DOMAIN SideLevels(Book, side) :
      LET q == LevelOrders(orders, SideLevels(Book, side)[p])
      IN  \A i, j \in 1..Len(q) : i < j => orders[q[i]].sequence < orders[q[j]].sequence

\* an order submitted first sits behind a later one after a priority-losing amend
C6_Witness ==
    \E side \in Sides : \E p \in DOMAIN SideLevels(Book, side) :
      LET q == LevelOrders(orders, SideLevels(Book, side)[p])
      IN  /\ Len(q) >= 2
          /\ q[Len(q)] < q[1]
          /\ orders[q[Len(q)]].status = "Amended"

\* C7 Price priority and emission order: every fill is made at the best contra
\* level there is at that moment, and the trade prices of one request never
\* improve: non-decreasing for a buy aggressor, non-increasing for a sell.
C7_PricePriority ==
    /\ \A i \in 1..Len(fills) :
         LET f == fills[i]
         IN  /\ f.level_price \in f.contra_prices
             /\ \A q \in f.contra_prices : ~Better(f.agg_pre.side, q, f.level_price)
    /\ \A i, j \in 1..Len(fills) :
         (i < j /\ SameRequest(i, j))
           => ~Better(trades[i].aggressor, trades[j].price, trades[i].price)

\* one request traded at two contra levels
C7_Witness ==
    \E i, j \in 1..Len(fills) :
      i < j /\ SameRequest(i, j) /\ trades[i].price # trades[j].price

\* C8 Trade price: a trade prints at the resting order's price, which is never
\* worse than a non-market aggressor's own price; and an order submitted with
\* PRICE_MARKET stops only when it is filled or the contra side is empty.
TradePriceRule ==
    \A i \in 1..Len(trades) :
      LET f == fills[i]
      IN  /\ trades[i].price = f.rest_pre.price
          /\ f.agg_pre.price # PRICE_MARKET =>
               /\ is_buy(f.agg_pre) => trades[i].price <= f.agg_pre.price
               /\ ~is_buy(f.agg_pre) => trades[i].price >= f.agg_pre.price

MarketSweeps ==
    (Len(orders') = Len(orders) + 1 /\ orders'[Len(orders')].price = PRICE_MARKET)
      => LET o == orders'[Len(orders')]
         IN  \/ o.filled_qty = o.quantity
             \/ DOMAIN (IF is_buy(o) THEN asks' ELSE bids') = {}

\* C8 Trade price: every trade executes at the resting order's price, within
\* the aggressor's limit, and a market order matches at any level until it is
\* filled or the contra side is empty.
C8_TradePrice == []TradePriceRule /\ [][MarketSweeps]_vars

\* a limit aggressor traded at a better price than its own, and a market order
\* traded at the far end of the price range
C8_Witness ==
    /\ \E i \in 1..Len(fills) :
         fills[i].agg_pre.price # PRICE_MARKET /\ trades[i].price # fills[i].agg_pre.price
    /\ \E i \in 1..Len(fills) :
         /\ fills[i].agg_pre.price = PRICE_MARKET
         /\ trades[i].price = MaxPrice

\* C9 Cancelled orders never trade: after cancel_order(id) returned true no
\* later trade names id on either side, and cancelling id again returns false.
C9_CancelledNeverTrade ==
    \A id \in DOMAIN cancelled_at :
      /\ \A i \in 1..Len(trades) :
           i > cancelled_at[id] =>
             trades[i].buy_order_id # id /\ trades[i].sell_order_id # id
      /\ ~cancel_order(Book, id).ret

\* after the cancel an aggressor traded at the price and side the cancelled
\* order had rested on
C9_Witness ==
    \E id \in DOMAIN cancelled_at : \E s \in Slots : \E i \in 1..Len(fills) :
      /\ orders[s].id = id
      /\ i > cancelled_at[id]
      /\ fills[i].level_price = orders[s].price
      /\ fills[i].rest_pre.side = orders[s].side

\* C10 Cancel of a resting order succeeds: for every order linked in a level,
\* cancel_order of its id returns true and leaves it unlinked, Cancelled, with
\* no leaves_qty, out of the id index, and no empty level behind.
C10_CancelRestingSucceeds ==
    \A s \in Linked(Book) :
      LET o == orders[s]
          r == cancel_order(Book, o.id)
      IN  /\ r.ret
          /\ s \notin Linked(r)
          /\ r.orders[s].status = "Cancelled"
          /\ r.orders[s].leaves_qty = 0
          /\ o.id \notin DOMAIN r.order_index
          /\ \A p \in DOMAIN SideLevels(r, o.side) :
               SideLevels(r, o.side)[p].order_count > 0

----------------------------------------------------------------------------
\* the order a step has just admitted, if the step is an add_order
Admitted == Len(orders') = Len(orders) + 1

\* what rests on the contra side at prices an order of this side and price
\* may trade at
Crossable(side, price) ==
    {r \in LinkedIn(Book, Contra(side)) : price_ok(side, price, orders[r].price)}

CrossableQty(side, price) ==
    SumOver([r \in Slots |-> orders[r].leaves_qty], Crossable(side, price))

\* C11 Failed cancel/amend is a no-op: for an id that is not in the id index,
\* or that names a Filled, Cancelled or Rejected order, cancel_order and every
\* amend_order return false and leave the side maps, the levels, the orders,
\* the id index and the sequence counter as they were.
C11_FailedRequestNoOp ==
    \A id \in OrderIds :
      (\/ id \notin DOMAIN order_index
       \/ orders[order_index[id]].status \in {"Filled", "Cancelled", "Rejected"})
      => /\ cancel_order(Book, id) = Book
         /\ \A np \in 0..MaxPrice, nq \in 0..limits.qty :
              amend_order(Book, [order_id |-> id, new_price |-> np,
                                 new_quantity |-> nq]) = Book

\* the id index still holds an order that was filled on entry, another id was
\* cancelled, and orders rest in the book
C11_Witness ==
    /\ \E id \in DOMAIN order_index : orders[order_index[id]].status = "Filled"
    /\ \E id \in DOMAIN cancelled_at : id \notin DOMAIN order_index
    /\ Linked(Book) # {}

FokSettled ==
    \A s \in Slots :
      orders[s].type = "FOK" =>
        /\ s \notin Linked(Book)
        /\ \/ orders[s].status = "Filled" /\ orders[s].filled_qty = orders[s].quantity
           \/ /\ orders[s].status = "Cancelled"
              /\ orders[s].filled_qty = 0
              /\ orders[s].id \notin DOMAIN order_index

FokKillLeavesBook ==
    (Admitted /\ orders'[Len(orders')].type = "FOK"
              /\ orders'[Len(orders')].status # "Filled")
      => /\ trades' = trades
         /\ bids' = bids /\ asks' = asks
         /\ order_index' = order_index
         /\ \A s \in Slots : orders'[s] = orders[s]

C13_FokFeasibility ==
    [][(Admitted /\ orders'[Len(orders')].type = "FOK"
                 /\ CrossableQty(orders'[Len(orders')].side, orders'[Len(orders')].price)
                      >= orders'[Len(orders')].quantity)
         => /\ orders'[Len(orders')].status = "Filled"
            /\ orders'[Len(orders')].filled_qty = orders'[Len(orders')].quantity]_vars

\* C14 Market and IOC orders never rest: such an order is not linked in any
\* level; one that was not completely filled is Cancelled with leaves_qty 0
\* and out of the id index; its filled_qty is the total of its own fills.
C14_MarketIocNeverRest ==
    \A s \in Slots :
      orders[s].type \in {"Market", "IOC"} =>
        /\ s \notin Linked(Book)
        /\ orders[s].filled_qty < orders[s].quantity =>
             /\ orders[s].status = "Cancelled"
             /\ orders[s].leaves_qty = 0
             /\ orders[s].id \notin DOMAIN order_index
        /\ orders[s].filled_qty =
             SumOver([i \in 1..Len(trades) |-> trades[i].quantity],
                     {i \in 1..Len(fills) : fills[i].agg = s})

\* one Market or IOC order was cancelled after a partial fill, another was
\* filled completely
C14_Witness ==
    \E s, u \in Slots :
      /\ orders[s].type \in {"Market", "IOC"} /\ orders[u].type \in {"Market", "IOC"}
      /\ orders[s].status = "Cancelled" /\ orders[s].filled_qty > 0
      /\ orders[u].status = "Filled"

\* the queue of the level at price p of a side, empty when there is no level
QueueAt(b, side, p) ==
    IF p \in DOMAIN SideLevels(b, side)
    THEN LevelOrders(b.orders, SideLevels(b, side)[p])
    ELSE <<>>

Without(q, s) == LET Keep(x) == x # s IN SelectSeq(q, Keep)

\* an order that amend_order has re-sequenced and that rests again goes behind
\* everything that rested at its price, under the greatest sequence number
RequeueToTail ==
    \A s \in Slots :
      (orders'[s].sequence # orders[s].sequence /\ s \in Linked(Book'))
        => LET o == orders'[s]
           IN  /\ QueueAt(Book', o.side, o.price)
                    = Append(Without(QueueAt(Book, o.side, o.price), s), s)
               /\ SideLevels(Book', o.side)[o.price].tail = s
               /\ \A u \in Slots \ {s} : orders'[u].sequence < o.sequence

\* an amended order is filled only as the head of its level, with nothing of
\* a smaller sequence number queued there
AmendedFillsInTurn ==
    \A i \in 1..Len(fills) :
      fills[i].rest_pre.status = "Amended" =>
        /\ fills[i].queue[1] = fills[i].rest
        /\ \A k \in 2..Len(fills[i].queue) :
             fills[i].queue_seqs[k] > fills[i].rest_pre.sequence

\* C15 Priority-losing amend goes to the tail: after an amend that changes the
\* price or raises the quantity, an order that still rests is the last of the
\* level at its price, has the greatest sequence number of the book, and is
\* filled after the orders that were resting at that price.
C15_RequeueToTail == []AmendedFillsInTurn /\ [][RequeueToTail]_vars

\* an order was filled while an order submitted before it, since re-queued by
\* an amend, waited behind it
C15_Witness ==
    \E i \in 1..Len(fills) :
      /\ Len(fills[i].queue) >= 2
      /\ fills[i].queue[2] < fills[i].queue[1]
      /\ fills[i].queue_seqs[2] > fills[i].queue_seqs[1]

\* C16 Amend-down preserves priority: for every resting order, amend_order
\* with the price unchanged and 0 < new_quantity < leaves_qty succeeds, sets
\* leaves_qty to new_quantity, lowers the level's total_quantity by the
\* difference and changes neither the order's sequence number, nor the queue,
\* nor any other order.
C16_AmendDownKeepsPriority ==
    \A s \in Linked(Book) : \A n \in 1..limits.qty : \A np \in {0, orders[s].price} :
      n < orders[s].leaves_qty =>
        LET o   == orders[s]
            r   == amend_order(Book, [order_id |-> o.id, new_price |-> np,
                                      new_quantity |-> n])
            lv  == SideLevels(Book, o.side)[o.price]
            lv2 == SideLevels(r, o.side)[o.price]
        IN  /\ r.ret
            /\ r.orders[s].leaves_qty = n
            /\ lv2.total_quantity = lv.total_quantity - (o.leaves_qty - n)
            /\ r.orders[s].sequence = o.sequence
            /\ LevelOrders(r.orders, lv2) = LevelOrders(orders, lv)
            /\ \A u \in Slots \ {s} : r.orders[u] = orders[u]

SeqBelowCounter ==
    /\ \A s \in Slots : orders[s].sequence < next_sequence
    /\ \A i \in 1..Len(trades) : trades[i].sequence < next_sequence
    /\ \A s, u \in Slots : s # u => orders[s].sequence # orders[u].sequence
    /\ \A s \in Slots : \A i \in 1..Len(trades) : orders[s].sequence # trades[i].sequence
    /\ \A i, j \in 1..Len(trades) : i < j => trades[i].sequence < trades[j].sequence

SeqFresh ==
    /\ next_sequence' >= next_sequence
    /\ Admitted => orders'[Len(orders')].sequence >= next_sequence
    /\ \A s \in Slots :
         orders'[s].sequence # orders[s].sequence => orders'[s].sequence >= next_sequence
    /\ \A i \in (Len(trades) + 1)..Len(trades') : trades'[i].sequence >= next_sequence

\* C17 Sequence numbers strictly increase: every number given to an order at
\* entry, to a re-sequenced order or to a trade is at least the counter before
\* the request and below the counter after it, so no two of them are equal and
\* a later order or trade carries a greater number than every earlier one.
C17_SequenceIncreases == []SeqBelowCounter /\ [][SeqFresh]_vars

\* a trade came between an order's entry and its re-sequencing by an amend
C17_Witness ==
    \E s, u \in Slots : \E i \in 1..Len(trades) :
      /\ s < u
      /\ orders[u].sequence < trades[i].sequence
      /\ trades[i].sequence < orders[s].sequence

\* C19 Price-level aggregates: in every level total_quantity is the sum of the
\* leaves_qty of the orders linked in it and order_count is their number,
\* whatever quantities the requests carried.
C19_LevelAggregates ==
    \A side \in Sides : \A p \in DOMAIN SideLevels(Book, side) :
      LET level == SideLevels(Book, side)[p]
          q     == LevelOrders(orders, level)
      IN  /\ level.total_quantity
               = SumOver([s \in Slots |-> orders[s].leaves_qty], SeqToSet(q))
          /\ level.order_count = Len(q)

\* C20 No phantom orders: every order linked in a level is in the id index
\* under its own id, and that index entry is the order itself, also when
\* requests reuse an id.
C20_NoPhantomOrders ==
    \A s \in Linked(Book) :
      /\ orders[s].id \in DOMAIN order_index
      /\ order_index[orders[s].id] = s

\* the orders the id index points at
Indexed == {order_index[id] : id \in DOMAIN order_index}

\* C21 The id index holds exactly the resting orders: an order is in the id
\* index, under its own id, if and only if it is linked in a level, so the size
\* of the index (active_orders) is the number of resting orders.
C21_IndexIsResting ==
    /\ \A s \in Slots :
         (orders[s].id \in DOMAIN order_index /\ order_index[orders[s].id] = s)
           <=> s \in Linked(Book)
    /\ Cardinality(DOMAIN order_index) = Cardinality(Linked(Book))

\* C25 Limit disposition: after add_order of a Limit order the order is linked
\* exactly when it has leaves_qty left, and then it is the tail of the level at
\* its price on its side and in the queue of no other level.
C25_LimitDisposition ==
    [][(Admitted /\ orders'[Len(orders')].type = "Limit")
         => LET s == Len(orders')
                o == orders'[s]
            IN  /\ s \in Linked(Book') <=> o.leaves_qty > 0
                /\ s \in Linked(Book') =>
                     /\ o.price \in DOMAIN SideLevels(Book', o.side)
                     /\ SideLevels(Book', o.side)[o.price].tail = s
                     /\ \A side \in Sides : \A p \in DOMAIN SideLevels(Book', side) :
                          s \in SeqToSet(QueueAt(Book', side, p))
                            => side = o.side /\ p = o.price]_vars

\* a limit order traded on entry and rested with its remainder, another limit
\* order was filled on entry
C25_Witness ==
    \E s, u \in Slots :
      /\ orders[s].type = "Limit"
      /\ \E i \in 1..Len(fills) : fills[i].agg = s /\ fills[i].agg_post.leaves_qty > 0
      /\ orders[u].type = "Limit" /\ orders[u].status = "Filled"
      /\ \E i \in 1..Len(fills) : fills[i].agg = u

\* C26 No-op amend: for a resting active order, amend_order with new_price 0
\* or the current price and new_quantity 0 or the current leaves_qty returns
\* true and leaves the whole book, sequence counter included, as it was.
C26_NoOpAmend ==
    \A s \in Linked(Book) :
      is_active(orders[s]) =>
        \A np \in {0, orders[s].price} : \A nq \in {0, orders[s].leaves_qty} :
          LET r == amend_order(Book, [order_id |-> orders[s].id, new_price |-> np,
                                      new_quantity |-> nq])
          IN  r.ret /\ [r EXCEPT !.ret = FALSE] = Book

\* a partially filled order rests, active, in front of another order
C26_Witness ==
    \E s \in Linked(Book) :
      /\ orders[s].status = "PartiallyFilled"
      /\ orders[s].next # NULL

\* C28 No empty levels: every level of either side map has at least one linked
\* order, counts at least one, and holds only orders of its own price and side.
C28_NoEmptyLevels ==
    \A side \in Sides : \A p \in DOMAIN SideLevels(Book, side) :
      LET level == SideLevels(Book, side)[p]
          q     == LevelOrders(orders, level)
      IN  /\ level.order_count > 0
          /\ Len(q) > 0
          /\ level.price = p
          /\ \A i \in 1..Len(q) : orders[q[i]].price = p /\ orders[q[i]].side = side

\* an order was moved to another price by an amend and filled there, another
\* order was cancelled, and both side maps are empty again
C28_Witness ==
    /\ \E i \in 1..Len(fills) :
         fills[i].rest_post.leaves_qty = 0 /\ fills[i].rest_pre.status = "Amended"
    /\ \E s \in Slots : orders[s].id \in DOMAIN cancelled_at
    /\ DOMAIN bids = {} /\ DOMAIN asks = {}

\* C29 Filled and Cancelled are terminal: no request changes an order that is
\* Filled or Cancelled, and such an order is not linked afterwards.
C29_TerminalStates ==
    [][\A s \in Slots :
         orders[s].status \in {"Filled", "Cancelled"}
           => orders'[s] = orders[s] /\ s \notin Linked(Book')]_vars

\* a filled order is still in the id index and a cancelled order exists while
\* later orders were admitted and an amend was applied
C29_Witness ==
    /\ \E s \in Indexed : orders[s].status = "Filled" /\ s < Len(orders)
    /\ \E s \in Slots : orders[s].status = "Cancelled" /\ s < Len(orders)
    /\ amends_applied > 0

\* the trades of one request: no resting order twice, each resting order but
\* the last filled completely and gone from the queue, each rested before the
\* request, and each made while the aggressor had leaves_qty at a price that
\* passes the price test
WalkIsBounded ==
    /\ \A i \in 1..Len(fills) :
         /\ fills[i].rest_pre.sequence < fills[i].agg_pre.sequence
         /\ fills[i].agg_pre.leaves_qty > 0
         /\ price_ok(fills[i].agg_pre.side, fills[i].agg_pre.price, fills[i].level_price)
    /\ \A i, j \in 1..Len(fills) :
         (i < j /\ SameRequest(i, j))
           => /\ fills[i].rest # fills[j].rest
              /\ fills[i].rest_post.leaves_qty = 0
              /\ fills[i].rest \notin SeqToSet(fills[j].queue)

\* the order a request has matched (admitted or re-sequenced) ends with no
\* leaves_qty, or with an empty contra side, or with a best contra level that
\* fails the price test
WalkStops ==
    \A s \in 1..Len(orders') :
      (s > Len(orders) \/ orders'[s].sequence # orders[s].sequence)
        => LET o      == orders'[s]
               contra == SideLevels(Book', Contra(o.side))
           IN  \/ o.leaves_qty = 0
               \/ DOMAIN contra = {}
               \/ ~price_ok(o.side, o.price, BestContraKey(o.side, contra))

\* C30 Bounded match walk: one request makes at most one trade per contra
\* order that rested when it began, fills every resting order it touches but
\* possibly the last completely, and stops when the aggressor has no
\* leaves_qty, the contra side is empty, or the best level fails the price test.
C30_BoundedWalk == []WalkIsBounded /\ [][WalkStops]_vars

\* one request filled a resting order completely and the next one partly
C30_Witness ==
    \E i, j \in 1..Len(fills) :
      i < j /\ SameRequest(i, j) /\ fills[j].rest_post.leaves_qty > 0

\* C27 The level aggregate never saturates: every reduce_quantity(n) that
\* matching has made, and every one a quantity-reducing amend of an active
\* order in the id index would make, has n <= the level's total_quantity.
C27_NoSaturation ==
    /\ \A i \in 1..Len(fills) : fills[i].reduce_arg <= fills[i].reduce_total
    /\ \A id \in DOMAIN order_index :
         LET o == orders[order_index[id]]
         IN  (is_active(o) /\ o.price \in DOMAIN SideLevels(Book, o.side))
               => \A n \in 1..limits.qty :
                    n < o.leaves_qty
                      => o.leaves_qty - n
                           <= SideLevels(Book, o.side)[o.price].total_quantity

\* a step that served a request naming an unregistered symbol: the call
\* failed, one more reject is counted and nothing else has changed
UnknownRejected ==
    calls'.unknown = calls.unknown + 1
      => /\ calls' = [calls EXCEPT !.unknown = @ + 1]
         /\ stats_' = [stats_ EXCEPT !.total_rejects = @ + 1]
         /\ UNCHANGED <<books_, data, messages_>>

\* C22: each of submit_order, cancel_order and amend_order called with a
\* symbol that was never registered fails, increments total_rejects by exactly
\* one and changes no book and no other counter.
C22_UnknownSymbolRejected == [][UnknownRejected]_vars

\* the sum of a counter over all books
RECURSIVE SumBooks(_, _)
SumBooks(field, syms) ==
    IF syms = {} THEN 0
    ELSE LET sym == CHOOSE x \in syms : TRUE
         IN  QAdd(books_[sym][field], SumBooks(field, syms \ {sym}))

\* C23: through the facade, total_orders is the number of accepted
\* submit_order calls (one order allocated in some book each), total_cancels
\* and total_amends are the numbers of cancel and amend calls that returned
\* true, total_trades is the sum of trade_count over the books and
\* total_volume the sum of their total_volume.
C23_CountersAgree ==
    /\ stats_.total_orders = calls.accepted
    /\ stats_.total_orders
         = SumOver([sym \in DOMAIN books_ |-> Len(books_[sym].orders)], DOMAIN books_)
    /\ stats_.total_cancels = calls.cancelled
    /\ stats_.total_amends = calls.amended
    /\ stats_.total_trades = SumBooks("trade_count", DOMAIN books_)
    /\ stats_.total_volume = SumBooks("total_volume", DOMAIN books_)

C23_Witness ==
    /\ DOMAIN books_ = Symbols
    /\ stats_.total_trades >= 1
    /\ stats_.total_cancels >= 1
    /\ stats_.total_amends >= 1

\* C24: in Simulator::run every trade the book executes is delivered to the
\* engine's global trade callback and is in data.trades, in execution order,
\* with one trade_record each, although a FeedPublisher is attached to the book.
C24_SimulatorRecordsTrades ==
    pc \in {"events", "done"}
      => /\ data.trades = books_[SimSymbol].trades
         /\ Len(data.trade_records) = Len(data.trades)
         /\ stats_.total_trades = books_[SimSymbol].trade_count

\* the book after the step, for the queries that take a book
BookAfter == [orders |-> orders', bids |-> bids', asks |-> asks']

\* a step in which cancel_order(id) returned true: every level keeps its
\* other orders in their order and loses only what the target held in it
CancelTouchesTarget ==
    cancelled_at' # cancelled_at
      => LET id == CHOOSE i \in DOMAIN cancelled_at' :
                     i \notin DOMAIN cancelled_at \/ cancelled_at'[i] # cancelled_at[i]
             s  == order_index[id]
         IN  \A side \in Sides : \A p \in DOMAIN SideLevels(Book, side) :
               LET level == SideLevels(Book, side)[p]
                   q     == QueueAt(Book, side, p)
                   held  == s \in SeqToSet(q)
               IN  /\ QueueAt(BookAfter, side, p) = Without(q, s)
                   /\ Without(q, s) # <<>>
                        => /\ p \in DOMAIN SideLevels(BookAfter, side)
                           /\ SideLevels(BookAfter, side)[p].total_quantity
                                = QSub(level.total_quantity,
                                       IF held THEN orders[s].leaves_qty ELSE 0)
                           /\ SideLevels(BookAfter, side)[p].order_count
                                = level.order_count - (IF held THEN 1 ELSE 0)

\* C31: a successful cancel_order(id), also of an indexed order that is linked
\* in no level, leaves every other resting order linked in its level at the
\* same relative position and changes no level's total_quantity or
\* order_count except by the cancelled order's own contribution.
C31_CancelTouchesOnlyTarget == [][CancelTouchesTarget]_vars

\* the sequence numbers the book of `sym` has issued to its orders and trades
SequencesOf(sym) ==
    {books_[sym].orders[i].sequence : i \in 1..Len(books_[sym].orders)}
      \cup {books_[sym].trades[i].sequence : i \in 1..Len(books_[sym].trades)}

\* C32: the sequence numbers issued under one MatchingEngine to the orders and
\* trades of all its symbols are distinct, so two events of different symbols
\* never carry the same sequence number.
C32_EngineWideSequence ==
    \A s1 \in DOMAIN books_ : \A s2 \in DOMAIN books_ \ {s1} :
      SequencesOf(s1) \cap SequencesOf(s2) = {}

\* how many levels a depth query asks for
DepthLevels == 3

\* the sum of the quantities of a list of BookLevels
RECURSIVE SumLevels(_)
SumLevels(ls) == IF ls = <<>> THEN 0 ELSE QAdd(Head(ls).quantity, SumLevels(Tail(ls)))

\* C37: for k > 0, bid_depth(k) is the sum of total_quantity over the k
\* highest-priced bid levels and ask_depth(k) the sum over the k lowest-priced
\* ask levels, the levels get_bids(k) and get_asks(k) return; with k = 0 each
\* is the total over the whole side.
C37_DepthCountsBest ==
    \A k \in 0..DepthLevels :
      LET n == IF k = 0 THEN Cardinality(DOMAIN bids) + Cardinality(DOMAIN asks) ELSE k
      IN  /\ bid_depth(Book, k) = SumLevels(get_bids(Book, n))
          /\ ask_depth(Book, k) = SumLevels(get_asks(Book, n))

\* the first n items of a sequence
Prefix(q, n) == SubSeq(q, 1, n)

\* C33: with one producer in push and one consumer in pop, under every
\* interleaving of their loads and stores, the pops return the pushed items in
\* push order, each once and none skipped, and the consumer never reads a slot
\* the producer has not finished writing.
C33_RingFifo ==
    /\ Len(popped) <= Len(pushed)
    /\ popped = Prefix(pushed, Len(popped))
    /\ consumer.pc = "store" => consumer.item = Len(popped) + 1
    /\ consumer.pc = "copy_end" => buffer_[consumer.read] = Len(popped) + 1

C33_Witness ==
    /\ Len(popped) = RingItems
    /\ popped = pushed

\* a push that returns false saw Capacity-1 items, a pop that returns nullopt
\* saw none
BackPressure ==
    /\ (producer.pc = "load_read" /\ producer'.pc = "idle")
         => Len(pushed) - producer'.seen = capacity
    /\ (consumer.pc = "load_write" /\ consumer'.pc = "idle")
         => consumer'.seen = Len(popped)

\* never more than Capacity-1 items, no unread slot written, and size() right
\* when both threads are between calls
RingBounded ==
    /\ Len(pushed) - Len(popped) <= capacity
    /\ producer.pc \in {"write", "write_end"}
         => /\ Len(pushed) - Len(popped) < capacity
            /\ \A k \in (Len(popped) + 1)..Len(pushed) :
                 (k - 1) % RingCapacity # producer.write
    /\ (producer.pc = "idle" /\ consumer.pc = "idle")
         => size = Len(pushed) - Len(popped)

\* C34: the buffer never holds more than Capacity-1 items and no unread item
\* is overwritten; push returns false only when the producer sees Capacity-1
\* items, pop returns nullopt only when the consumer sees none, and size() is
\* pushes minus pops when no operation is in flight.
C34_RingBackPressure == []RingBounded /\ [][BackPressure]_vars

C34_Witness ==
    /\ Len(pushed) - Len(popped) = capacity
    /\ Len(pushed) > RingCapacity
    /\ producer.pc = "idle"
    /\ producer.seen = Len(popped)
    /\ producer.item = Len(pushed) + 1

\* the slots of a sequence
SlotsOf(s) == {s[i] : i \in 1..Len(s)}

\* the free list holds no slot twice and no slot the caller holds
FreeListSound ==
    /\ Cardinality(SlotsOf(FreeList(Arena))) = Len(FreeList(Arena))
    /\ SlotsOf(FreeList(Arena)) \cap live = {}

\* C38: over any sequence of allocate and deallocate calls (every deallocate
\* naming a slot the caller holds), across slab growth, allocate returns a slot
\* of a slab that is not allocated at that moment, an allocate right after a
\* deallocate returns the slot just released, and allocated() is the number of
\* allocate calls minus the number of deallocate calls
C38_ArenaNeverHandsOutLiveSlot ==
    arena_call.op \in {"allocate", "deallocate"} =>
        /\ FreeListSound
        /\ allocated_ = arena_call.allocates - arena_call.deallocates
        /\ allocated_ = Cardinality(live)
        /\ arena_call.op = "allocate" =>
               /\ arena_call.slot \in 1..Len(node_next)
               /\ ~arena_call.was_live
               /\ arena_call.prev = "deallocate" => arena_call.slot = arena_call.prev_slot

\* after a growth, with other slots still held, an allocate right after a
\* deallocate has returned the slot released
C38_Witness ==
    /\ Len(slabs_) >= 2
    /\ arena_call.op = "allocate"
    /\ arena_call.prev = "deallocate"
    /\ arena_call.slot = arena_call.prev_slot
    /\ ~arena_call.was_live
    /\ allocated_ >= 2
    /\ allocated_ = arena_call.allocates - arena_call.deallocates

\* a slab is made only by the constructor and by an allocate that finds the
\* free list empty, and that growth doubles the number of slots
GrowthDoubles ==
    (Len(slabs_') > Len(slabs_) /\ arena_call'.op # "construct") =>
        /\ arena_call'.op = "allocate"
        /\ arena_call'.was_empty
        /\ SlabSlots(slabs_') = 2 * SlabSlots(slabs_)

CapacityCountsSlots ==
    /\ capacity_ = SlabSlots(slabs_)
    /\ allocated_ + Len(FreeList(Arena)) = capacity_

\* C39: at all times capacity() is the number of slots of all slabs, so that
\* allocated() plus the length of the free list is capacity(); a slab is made
\* only when the free list is empty, and each growth doubles the number of
\* slots
C39_ArenaCapacityAccounting == []CapacityCountsSlots /\ [][GrowthDoubles]_vars

\* C36: for every mid_price, side and draw, generate_order returns a request
\* whose quantity is a positive multiple of 100, and which is either a
\* Market/IOC order priced PRICE_MARKET or a Limit/GTC order priced at least 1
\* whose placement before the clamp is at or below mid for a buy and at or
\* above mid for a sell
C36_AgentOrderWellFormed ==
    agent_call.op = "generate_order" =>
        LET req    == agent_call.req
            placed == placement(agent_call.mid_price, agent_call.is_buy, agent_call.offset)
        IN  /\ req.quantity >= 100
            /\ req.quantity % 100 = 0
            /\ req.side = (IF agent_call.is_buy THEN "Buy" ELSE "Sell")
            /\ \/ /\ req.type = "Market"
                  /\ req.tif = "IOC"
                  /\ req.price = PRICE_MARKET
               \/ /\ req.type = "Limit"
                  /\ req.tif = "GTC"
                  /\ req.price >= 1
                  /\ req.price = (IF placed < 1 THEN 1 ELSE placed)
                  /\ req.side = "Buy" => placed <= agent_call.mid_price
                  /\ req.side = "Sell" => placed >= agent_call.mid_price

\* a limit buy placed below 1 and clamped, of a size that rounds to no lot
C36_Witness ==
    /\ agent_call.op = "generate_order"
    /\ agent_call.req.type = "Limit"
    /\ agent_call.req.side = "Buy"
    /\ placement(agent_call.mid_price, agent_call.is_buy, agent_call.offset) < 1
    /\ agent_call.req.price = 1
    /\ agent_call.raw \in 1..49
    /\ agent_call.req.quantity = 100

=============================================================================
